---- MODULE Spec2Model ----
(***************************************************************************)
(* A model of the YTS scraper (yts_scraper/scraper.py) and of the three    *)
(* Real-Debrid upload orchestrators.                                       *)
(*                                                                         *)
(* Strings that the code takes apart (display names, paths, timestamps)    *)
(* are sequences of characters or tokens; a Python dict is a function; a   *)
(* timestamp is a day number, written out by IsoFormat as fixed-width      *)
(* digits and compared as the code compares it, as a string.               *)
(***************************************************************************)
EXTENDS Integers, Sequences, FiniteSets, TLC

VARIABLES
    \* ---- the scraper process and its surroundings
    args,                     \* the argparse namespace given to Scraper.__init__
    upstream,                 \* what the metadata API answers: movie_count and the pages
    now,                      \* the clock, in days
    files,                    \* the output directory: path of a .magnet file -> its content
    cacheFile,                \* scraper_cache.json on disk
    csv_log,                  \* rows of YTS-Scraper.csv
    processed_movies_cache,   \* Scraper.processed_movies_cache
    downloaded_movie_ids,     \* Scraper.downloaded_movie_ids
    existing_file_counter,    \* Scraper.existing_file_counter
    skip_exit_condition,      \* Scraper.skip_exit_condition
    movie_count,              \* Scraper.movie_count
    pages_left,               \* the part of range_ the page loop has not reached yet
    movies_left,              \* the movies of the current page not yet filtered
    torrents_left,            \* the torrents of the current movie not yet looked at
    genres_left,              \* the persist calls the current torrent still owes
    cur,                      \* the movie and torrent being processed
    pc,                       \* where the scraper process is
    run,                      \* which run of the pipeline this is
    hist,                     \* history of the runs (not program state)
    \* ---- the page arithmetic on its own
    pg,
    \* ---- PersistentCache load on its own
    cl,
    \* ---- the upload orchestrators
    up,
    \* ---- PersistentCache record on its own
    rec,
    \* ---- one metadata HTTP call on its own
    rq,
    \* ---- the path derivation on its own
    bp,
    \* ---- the persist calls of a run on their own
    eh,
    \* ---- one upload call of an orchestrator on its own
    um,
    \* ---- the worker pool of the scraper on its own
    mp

scrVars == <<args, upstream, now, files, cacheFile, csv_log, processed_movies_cache,
             downloaded_movie_ids, existing_file_counter, skip_exit_condition,
             movie_count, pages_left, movies_left, torrents_left, genres_left,
             cur, pc, run, hist>>

vars == <<scrVars, pg, cl, up, rec, rq, bp, eh, um, mp>>

(***************************************************************************)
(* Program constants                                                       *)
(***************************************************************************)
\* self.limit = 50: the page size
limit == 50
\* timedelta(days=30): the retention window of the cache
RetentionDays == 30
\* existing_file_counter > 10 opens the escape hatch
ExistingFileLimit == 10
\* max_retries of Scraper._make_request_with_retry
max_retries == 3
\* the factor of the wait after a timeout
TimeoutBase == 2
\* the factor of the wait after a connection error
ConnectionBase == 3
\* RealDebridUploader.max_retries
AdaptiveMaxRetries == 3
\* RealDebridUploader.backoff_delay, in seconds
BackoffDelay == 60
\* RealDebridUploader.retry_delay, in seconds
RetryDelay == 10
\* the largest exponent of the backoff
BackoffCap == 3
\* RealDebridSmartUploader.backoff_delay, in seconds
SmartBackoffDelay == 30
\* the sleep of RealDebridSmartUploader.upload_magnet after an exception
SmartRetryDelay == 10
\* RealDebridUploader.max_concurrent_downloads
MaxConcurrentDownloads == 10
\* the threshold on consecutive_rate_limits in main of the adaptive orchestrator
RateLimitStop == 3
\* RealDebridSmartUploader.max_retries
SmartMaxRetries == 2
\* the threshold on consecutive_failures in main of the smart orchestrator
FailureStop == 5
\* RealDebridCachedUploader.cache_check_batch_size
CacheCheckBatchSize == 10

(***************************************************************************)
(* Bounds of the model                                                     *)
(***************************************************************************)
\* the pipeline is run this many times in a row
MaxRuns == 2
\* the largest total count the metadata API reports in the page arithmetic
MaxTotalCount == 260
\* the largest starting page in the page arithmetic
MaxStartPage == 4
\* the number of .magnet files in a directory the orchestrators scan
MaxFiles == 3
\* the latest modification time of a .magnet file
MaxMtime == 2
\* the number of record calls in a sequence
MaxCalls == 3
\* the number of persist calls in a sequence
MaxPersist == 24
\* the largest value of consecutive_rate_limits at the start of an upload call
MaxConsecutive == 4
\* an orchestrator is run this many times in a row over one directory
MaxUploadRuns == 2

(***************************************************************************)
(* Python values                                                           *)
(***************************************************************************)
\* the empty dict
EmptyDict == <<>>

\* d[k] = v on a dict
DictSet(d, k, v) == [x \in DOMAIN d \cup {k} |-> IF x = k THEN v ELSE d[x]]

\* math.trunc(a / b) for b > 0: rounds toward zero
Trunc(a, b) == IF a >= 0 THEN a \div b ELSE -((-a) \div b)

\* str.__lt__: lexicographic order on strings of digits
RECURSIVE StrLess(_, _)
StrLess(a, b) ==
    IF a = <<>> THEN b # <<>>
    ELSE IF b = <<>> THEN FALSE
    ELSE IF a[1] = b[1] THEN StrLess(Tail(a), Tail(b))
    ELSE a[1] < b[1]

\* datetime.isoformat(): fixed-width, most significant digit first
IsoFormat(t) == <<t \div 100, (t \div 10) % 10, t % 10>>

\* the day an isoformat string names
IsoDay(s) == s[1] * 100 + s[2] * 10 + s[3]

\* the default '1900-01-01' of data.get('last_seen', '1900-01-01')
Iso1900 == <<0>>

(***************************************************************************)
(* The metadata API's catalog: the releases the listings are made of       *)
(***************************************************************************)
\* the movie objects of data.movies, by id
Catalog ==
    [i \in 1..5 |->
        CASE i = 1 -> [id |-> 1, title_long |-> <<"A", ":", " ", "b">>, year |-> 2020,
                       imdb_code |-> "tt1",
                       genres |-> <<"Action", "Comedy", "Crime", "Drama", "Sci-Fi", "War">>,
                       has_torrents |-> TRUE,
                       torrents |-> <<[quality |-> "720p", hash |-> "H1A"],
                                      [quality |-> "1080p", hash |-> "H1B"]>>]
          [] i = 2 -> [id |-> 2, title_long |-> <<"B", " ", "c">>, year |-> 2021,
                       imdb_code |-> "tt2", genres |-> <<>>,
                       has_torrents |-> TRUE,
                       torrents |-> <<[quality |-> "1080p", hash |-> "H2"]>>]
          [] i = 3 -> [id |-> 3, title_long |-> <<"A", " ", "b">>, year |-> 2020,
                       imdb_code |-> "tt3", genres |-> <<"Drama">>,
                       has_torrents |-> TRUE,
                       torrents |-> <<[quality |-> "720p", hash |-> "H3"]>>]
          [] i = 4 -> [id |-> 4, title_long |-> <<"O", "?">>, year |-> 1990,
                       imdb_code |-> "tt4", genres |-> <<"Drama">>,
                       has_torrents |-> TRUE,
                       torrents |-> <<[quality |-> "720p", hash |-> "H4"]>>]
          [] OTHER -> [id |-> 5, title_long |-> <<"N">>, year |-> 2022,
                       imdb_code |-> "tt5", genres |-> <<"Drama">>,
                       has_torrents |-> FALSE,
                       torrents |-> <<>>]]

\* the listings the API serves: the count it reports and the movies of each page
Upstreams ==
    { [movie_count |-> 2, pages |-> << <<1, 2>> >>],
      [movie_count |-> 100, pages |-> << <<1, 4, 1>>, <<3, 5, 2>> >>] }

\* data.get('data', {}).get('movies') of the answer for one page
PageMovies(u, page) == IF page \in DOMAIN u.pages THEN u.pages[page] ELSE <<>>

(***************************************************************************)
(* PersistentCache                                                         *)
(***************************************************************************)
\* data.get('last_seen', '1900-01-01')
LastSeenOf(data) == IF "last_seen" \in DOMAIN data THEN data["last_seen"] ELSE Iso1900

\* the comparison that keeps an entry as old as the cutoff
MutIsFresh(data, cutoff_date) == ~StrLess(LastSeenOf(data), cutoff_date)

\* the comparison of _load_cache: the entry is younger than the cutoff
IsFresh(data, cutoff_date) == StrLess(cutoff_date, LastSeenOf(data))

\* Scraper._load_cache at time t, of the file as it is on disk
LoadCache(file, t) ==
    IF ~file.exists THEN EmptyDict
    ELSE IF ~file.valid THEN EmptyDict
    ELSE LET cache_data == file.data
             cutoff_date == IsoFormat(t - RetentionDays)
             kept == {movie_id \in DOMAIN cache_data : IsFresh(cache_data[movie_id], cutoff_date)}
         IN  [movie_id \in kept |-> cache_data[movie_id]]

\* the elements of a list
Elems(s) == {s[i] : i \in DOMAIN s}

\* Scraper._is_movie_cached
IsMovieCached(cache, movie_id, quality) ==
    IF movie_id \notin DOMAIN cache THEN FALSE
    ELSE LET cached_movie == cache[movie_id]
             cached_qualities == IF "qualities" \in DOMAIN cached_movie
                                 THEN cached_movie["qualities"] ELSE <<>>
         IN  quality \in Elems(cached_qualities)

\* _cache_movie that appends the quality whether the entry holds it or not
MutCacheMovieAppend(cache, movie_id, movie_name, year, quality, t1, t2, t3) ==
    LET c1 == IF movie_id \notin DOMAIN cache
              THEN DictSet(cache, movie_id,
                           [name |-> movie_name, year |-> year, qualities |-> <<>>,
                            first_seen |-> IsoFormat(t1), last_seen |-> IsoFormat(t2)])
              ELSE cache
        e1 == DictSet(c1[movie_id], "last_seen", IsoFormat(t3))
    IN  DictSet(c1, movie_id, DictSet(e1, "qualities", Append(e1["qualities"], quality)))

\* _cache_movie that stamps first_seen, not last_seen, on every touch
MutCacheMovieStamp(cache, movie_id, movie_name, year, quality, t1, t2, t3) ==
    LET c1 == IF movie_id \notin DOMAIN cache
              THEN DictSet(cache, movie_id,
                           [name |-> movie_name, year |-> year, qualities |-> <<>>,
                            first_seen |-> IsoFormat(t1), last_seen |-> IsoFormat(t2)])
              ELSE cache
        e1 == DictSet(c1[movie_id], "first_seen", IsoFormat(t3))
        e2 == IF quality \notin Elems(e1["qualities"])
              THEN DictSet(e1, "qualities", Append(e1["qualities"], quality))
              ELSE e1
    IN  DictSet(c1, movie_id, e2)

\* _cache_movie that keeps only the quality of the call
MutCacheMovieReset(cache, movie_id, movie_name, year, quality, t1, t2, t3) ==
    LET c1 == IF movie_id \notin DOMAIN cache
              THEN DictSet(cache, movie_id,
                           [name |-> movie_name, year |-> year, qualities |-> <<>>,
                            first_seen |-> IsoFormat(t1), last_seen |-> IsoFormat(t2)])
              ELSE cache
        e1 == DictSet(c1[movie_id], "last_seen", IsoFormat(t3))
    IN  DictSet(c1, movie_id, DictSet(e1, "qualities", <<quality>>))

\* Scraper._cache_movie, the cache after the call; t1, t2 and t3 are what
\* its three calls of datetime.now() return: first_seen and last_seen of a
\* new entry, then last_seen of the entry
CacheMovieAt(cache, movie_id, movie_name, year, quality, t1, t2, t3) ==
    LET c1 == IF movie_id \notin DOMAIN cache
              THEN DictSet(cache, movie_id,
                           [name |-> movie_name, year |-> year, qualities |-> <<>>,
                            first_seen |-> IsoFormat(t1), last_seen |-> IsoFormat(t2)])
              ELSE cache
        e1 == DictSet(c1[movie_id], "last_seen", IsoFormat(t3))
        e2 == IF quality \notin Elems(e1["qualities"])
              THEN DictSet(e1, "qualities", Append(e1["qualities"], quality))
              ELSE e1
    IN  DictSet(c1, movie_id, e2)

\* Scraper._cache_movie on a clock that stands at t during the call
CacheMovie(cache, movie_id, movie_name, year, quality, t) ==
    CacheMovieAt(cache, movie_id, movie_name, year, quality, t, t, t)

\* the files scraper_cache.json may be
NoFile == [exists |-> FALSE, valid |-> FALSE, data |-> EmptyDict]
CorruptFile == [exists |-> TRUE, valid |-> FALSE, data |-> EmptyDict]
JsonFile(d) == [exists |-> TRUE, valid |-> TRUE, data |-> d]

(***************************************************************************)
(* Pagination                                                              *)
(***************************************************************************)
\* __get_api_data: the movie count adjusted for the starting page
AdjustedCount(total, page_arg) ==
    IF page_arg = 1 THEN total ELSE total - ((page_arg - 1) * limit)

\* the page count that counts the last, partly filled page
MutPageCountCeil(count) == ((count + limit - 1) \div limit) + 1

\* __initialize_download: the page count, never 1
PageCount(count) ==
    IF Trunc(count, limit) + 1 = 1 THEN 2 ELSE Trunc(count, limit) + 1

\* the range that includes page_count
MutPageRangeInclusive(page_arg, page_count) ==
    IF page_count >= page_arg
    THEN [i \in 1..(page_count - page_arg + 1) |-> page_arg + i - 1]
    ELSE <<>>

\* range(int(self.page_arg), page_count) as a list
PageRange(page_arg, page_count) ==
    IF page_count > page_arg
    THEN [i \in 1..(page_count - page_arg) |-> page_arg + i - 1]
    ELSE <<>>

(***************************************************************************)
(* Paths and magnet links                                                  *)
(***************************************************************************)
\* the characters title_long.translate(...) removes
IllegalChars == {"'", "/", "\\", ":", "*", "?", "<", ">", "|"}

\* movie.get('title_long').translate({ord(i): None for i in "'/\:*?<>|"})
Sanitize(title_long) == SelectSeq(title_long, LAMBDA ch : ch \notin IllegalChars)

\* movie_name.replace(' ', '+')
PlusEncode(name) == [i \in DOMAIN name |-> IF name[i] = " " THEN "+" ELSE name[i]]

\* str.title() of the categorization
Title(s) == CASE s = "rating" -> "Rating" [] s = "genre" -> "Genre" [] OTHER -> s

\* self.directory, set by __init__
Directory(a) ==
    IF a.output # "" THEN <<"./", a.output>> ELSE <<"./", Title(a.categorize)>>

\* the value of a call that returns None
NoPath == <<>>

\* the path of the organization by genre: directory/genre/name (year)/...
MutBuildPathByGenre(a, movie_name, rating, quality, movie_genre, imdb_id, year) ==
    IF a.csv_only THEN NoPath
    ELSE LET directory == Directory(a) \o <<"/", movie_genre, "/">> \o movie_name
                              \o <<" (", year, ")">>
             filename == IF a.imdb_id
                         THEN movie_name \o <<".", quality, "-", imdb_id>>
                         ELSE movie_name \o <<".", quality>>
         IN  directory \o <<"/">> \o filename

\* Scraper.__build_path
BuildPath(a, movie_name, rating, quality, movie_genre, imdb_id, year) ==
    IF a.csv_only THEN NoPath
    ELSE LET directory == Directory(a) \o <<"/">> \o movie_name \o <<" (", year, ")">>
             filename == IF a.imdb_id
                         THEN movie_name \o <<".", quality, "-", imdb_id>>
                         ELSE movie_name \o <<".", quality>>
         IN  directory \o <<"/">> \o filename

\* the fixed tracker list of the magnet link
Trackers ==
    <<"&tr=udp://open.demonii.com:1337", "&tr=udp://tracker.openbittorrent.com:80",
      "&tr=udp://tracker.coppersurfer.tk:6969", "&tr=udp://glotorrents.pw:6969/announce",
      "&tr=udp://tracker.opentrackr.org:1337/announce",
      "&tr=udp://torrent.gresille.org:80/announce", "&tr=udp://p4p.arenabg.com:1337",
      "&tr=udp://tracker.leechers-paradise.org:6969">>

\* the link built from the name as it is, spaces kept
MutMagnetLink(torrent_hash, movie_name) ==
    <<"magnet:?xt=urn:btih:", torrent_hash, "&dn=">> \o movie_name \o Trackers

\* the f-string that builds magnet_link
MagnetLink(torrent_hash, movie_name) ==
    <<"magnet:?xt=urn:btih:", torrent_hash, "&dn=">> \o PlusEncode(movie_name) \o Trackers

\* the record json.dump writes to the .magnet file
MagnetInfo(torrent_hash, movie_name, movie_id, quality, imdb_id, year, t) ==
    [magnet_link |-> MagnetLink(torrent_hash, movie_name), hash |-> torrent_hash,
     movie_name |-> movie_name, year |-> year, quality |-> quality,
     imdb_id |-> imdb_id, movie_id |-> movie_id, created_at |-> IsoFormat(t)]

\* magnet_file_path = path + '.magnet'
MagnetFilePath(path) == path \o <<".magnet">>

\* the check of the version that downloaded .torrent files
MutMagnetFileExistsTorrent(dir, path) == (path \o <<".torrent">>) \in DOMAIN dir

\* the check made on the path without its suffix
MutMagnetFileExistsNoSuffix(dir, path) == path \in DOMAIN dir

\* os.path.isfile(magnet_file_path)
MagnetFileExists(dir, path) == MagnetFilePath(path) \in DOMAIN dir

\* the filter on the configured quality
QualityMatches(a_quality, quality) == a_quality = "all" \/ a_quality = quality

(***************************************************************************)
(* The scraper process                                                     *)
(***************************************************************************)
\* the day of the first run
FirstDay == 200

\* the days that pass between two runs
Gaps == {1, RetentionDays}

\* the namespaces the scraper is started with
ArgSets ==
    {a \in [quality : {"all", "1080p"}, categorize : {"rating", "genre"},
            year_limit : {0, 2000}, csv_only : BOOLEAN, auto_continue : BOOLEAN,
            imdb_id : BOOLEAN, page : {1}, output : {"out"}] :
        /\ a.auto_continue => (a.quality = "all" /\ a.categorize = "genre" /\ a.year_limit = 0)
        /\ a.csv_only => (a.quality = "all" /\ a.year_limit = 0 /\ ~a.imdb_id /\ ~a.auto_continue)
        /\ a.imdb_id => (a.quality = "all" /\ a.year_limit = 0 /\ ~a.auto_continue)}

\* self.quality, set by __init__
QualityOf(a) == IF a.quality = "3d" THEN "3D" ELSE a.quality

\* movie_genres of __filter_torrents
MovieGenres(movie) == IF movie.genres # <<>> THEN movie.genres ELSE <<"None">>

\* a cache entry as an earlier run recorded it on day t
EntryOf(i, qualities, t) ==
    [name |-> Sanitize(Catalog[i].title_long), year |-> Catalog[i].year,
     qualities |-> qualities, first_seen |-> IsoFormat(t), last_seen |-> IsoFormat(t)]

\* the .magnet file an earlier run wrote on day t for torrent k of movie i
EarlierFile(a, i, k, t) ==
    LET movie == Catalog[i]
        name == Sanitize(movie.title_long)
        tor == movie.torrents[k]
        path == BuildPath(a, name, 0, tor.quality, "", movie.imdb_code, ToString(movie.year))
    IN  DictSet(EmptyDict, path \o <<".magnet">>,
                MagnetInfo(tor.hash, name, ToString(i), tor.quality, movie.imdb_code,
                           movie.year, t))

\* the history of a run that has not started
NoHist(clean, prev_cached) ==
    [written |-> {}, recorded |-> {}, year_rejected |-> {}, fetch_failed |-> FALSE,
     count |-> "", variant |-> [accepted |-> FALSE, written |-> 0],
     requested |-> <<>>, saved |-> FALSE, write_failed |-> FALSE, prev_clean |-> clean,
     start |-> [empty_dir |-> FALSE, cached |-> {}], prev_cached |-> prev_cached,
     last |-> [path |-> NoPath, existed |-> FALSE, ret |-> "", id |-> ""]]

\* the (release id, quality) pairs a cache holds
CachedPairs(cache) ==
    {pr \in (DOMAIN cache) \X {"720p", "1080p"} : IsMovieCached(cache, pr[1], pr[2])}

NoCur == [movie |-> 0, quality |-> "", hash |-> ""]

ScrInit ==
    /\ args \in ArgSets
    /\ upstream \in Upstreams
    /\ now = FirstDay
    /\ files \in {EmptyDict} \cup
                 (IF args.csv_only THEN {} ELSE {EarlierFile(args, 1, 1, FirstDay - 40)})
    /\ cacheFile \in {NoFile, JsonFile(DictSet(EmptyDict, "2", EntryOf(2, <<"1080p">>, FirstDay - 1)))}
    /\ csv_log = {}
    /\ processed_movies_cache = EmptyDict
    /\ downloaded_movie_ids = {}
    /\ existing_file_counter = 0
    /\ skip_exit_condition = FALSE
    /\ movie_count = 0
    /\ pages_left = <<>>
    /\ movies_left = <<>>
    /\ torrents_left = <<>>
    /\ genres_left = <<>>
    /\ cur = NoCur
    /\ pc = "new"
    /\ run = 1
    /\ hist = NoHist(FALSE, {})

\* Scraper.__init__: the fields are cleared and the cache is loaded
ScraperInit ==
    /\ pc = "new"
    /\ processed_movies_cache' = LoadCache(cacheFile, now)
    /\ downloaded_movie_ids' = {}
    /\ existing_file_counter' = 0
    /\ skip_exit_condition' = FALSE
    /\ movie_count' = 0
    /\ pc' = "constructed"
    /\ hist' = [hist EXCEPT !.start = [empty_dir |-> files = EmptyDict,
                                       cached |-> CachedPairs(LoadCache(cacheFile, now))]]
    /\ UNCHANGED <<pg, cl, up, rec, rq, bp, eh, um, mp, args, upstream, now, files, cacheFile, csv_log, pages_left,
                   movies_left, torrents_left, genres_left, cur, run>>

\* the handler that swallows the failure of the count request and goes on
MutAfterCountRequest(outcome) == IF outcome = "undecodable" THEN "crashed" ELSE "got_api"

\* where __get_api_data leaves the process: the request failed after its
\* retries (sys.exit(0)), the body could not be decoded (the message is
\* printed and data, never bound, is read: UnboundLocalError), or the count
\* was read
AfterCountRequest(outcome) ==
    CASE outcome = "ok" -> "got_api"
      [] outcome = "fails" -> "exit0"
      [] OTHER -> "crashed"

\* Scraper.__get_api_data: the count request
GetApiData ==
    /\ pc = "constructed"
    /\ \E outcome \in {"ok", "fails", "undecodable"} :
        /\ movie_count' = IF outcome = "ok"
                          THEN AdjustedCount(upstream.movie_count, args.page)
                          ELSE movie_count
        /\ pc' = AfterCountRequest(outcome)
        /\ hist' = [hist EXCEPT !.count = outcome]
    /\ UNCHANGED <<pg, cl, up, rec, rq, bp, eh, um, mp, args, upstream, now, files, cacheFile, csv_log, processed_movies_cache,
                   downloaded_movie_ids, existing_file_counter, skip_exit_condition,
                   pages_left, movies_left, torrents_left, genres_left, cur, run>>

\* Scraper.__initialize_download up to the page loop
InitializeDownload ==
    /\ pc = "got_api"
    /\ existing_file_counter' = 0
    /\ skip_exit_condition' = FALSE
    /\ downloaded_movie_ids' = {}
    /\ LET page_count == PageCount(movie_count)
           range_ == PageRange(args.page, page_count)
       IN  IF movie_count <= 0
           THEN pc' = "exit0" /\ pages_left' = <<>>
           ELSE pc' = "pages" /\ pages_left' = range_
    /\ UNCHANGED <<pg, cl, up, rec, rq, bp, eh, um, mp, args, upstream, now, files, cacheFile, csv_log, processed_movies_cache,
                   movie_count, movies_left, torrents_left, genres_left, cur, run, hist>>

\* the page loop that gives up at the first page it cannot fetch
MutPagesAfterFetch(range_left, outcome) ==
    IF outcome = "fails" THEN <<>> ELSE Tail(range_left)

\* what is left of range_ after a turn of the page loop: the 'continue' of
\* the except clause and the end of the loop body both go to the next page
PagesAfterFetch(range_left, outcome) == Tail(range_left)

\* one turn of the page loop: the request for the page
FetchPage ==
    /\ pc = "pages"
    /\ pages_left # <<>>
    /\ \E outcome \in {"ok", "fails"} :
        LET page == Head(pages_left)
            movies == IF outcome = "ok" THEN PageMovies(upstream, page) ELSE <<>>
        IN  /\ pages_left' = PagesAfterFetch(pages_left, outcome)
            /\ movies_left' = movies
            /\ pc' = IF movies = <<>> THEN "pages" ELSE "movies"
            /\ hist' = [hist EXCEPT !.requested = Append(@, page),
                                    !.fetch_failed = @ \/ outcome = "fails"]
    /\ UNCHANGED <<pg, cl, up, rec, rq, bp, eh, um, mp, args, upstream, now, files, cacheFile, csv_log, processed_movies_cache,
                   downloaded_movie_ids, existing_file_counter, skip_exit_condition,
                   movie_count, torrents_left, genres_left, cur, run>>

\* the end of the page loop: 'Download finished.'
FinishDownload ==
    /\ pc = "pages"
    /\ pages_left = <<>>
    /\ pc' = "finished"
    /\ UNCHANGED <<pg, cl, up, rec, rq, bp, eh, um, mp, args, upstream, now, files, cacheFile, csv_log, processed_movies_cache,
                   downloaded_movie_ids, existing_file_counter, skip_exit_condition,
                   movie_count, pages_left, movies_left, torrents_left, genres_left,
                   cur, run, hist>>

\* where the loops of __initialize_download and __filter_torrents go next
PcAfter(ml, tl, gl) ==
    IF gl # <<>> THEN "persist"
    ELSE IF tl # <<>> THEN "torrents"
    ELSE IF Len(ml) > 1 THEN "movies" ELSE "pages"

\* the movies left once the loops have moved on
MoviesAfter(ml, tl, gl) == IF gl = <<>> /\ tl = <<>> THEN Tail(ml) ELSE ml

\* the cutoff with its comparison turned round
MutBelowYearLimit(year, year_limit) == year > year_limit

\* the year cutoff of __filter_torrents
BelowYearLimit(year, year_limit) == year < year_limit

\* the filter that lets a repeated release through
MutAlreadyDownloaded(ids, movie_id) == FALSE

\* movie_id in self.downloaded_movie_ids
AlreadyDownloaded(ids, movie_id) == movie_id \in ids

\* Scraper.__filter_torrents up to the torrent loop
FilterTorrents ==
    /\ pc = "movies"
    /\ movies_left # <<>>
    /\ LET movie == Catalog[Head(movies_left)]
           movie_id == ToString(movie.id)
           rejected == \/ BelowYearLimit(movie.year, args.year_limit)
                       \/ AlreadyDownloaded(downloaded_movie_ids, movie_id)
                       \/ ~movie.has_torrents
           tl == IF rejected THEN <<>> ELSE movie.torrents
       IN  /\ torrents_left' = tl
           /\ cur' = [NoCur EXCEPT !.movie = movie.id]
           /\ pc' = PcAfter(movies_left, tl, <<>>)
           /\ movies_left' = MoviesAfter(movies_left, tl, <<>>)
           /\ hist' = IF BelowYearLimit(movie.year, args.year_limit)
                      THEN [hist EXCEPT !.year_rejected = @ \cup {movie.id}]
                      ELSE hist
    /\ UNCHANGED <<pg, cl, up, rec, rq, bp, eh, um, mp, args, upstream, now, files, cacheFile, csv_log, processed_movies_cache,
                   downloaded_movie_ids, existing_file_counter, skip_exit_condition,
                   movie_count, pages_left, genres_left, run>>

\* one turn of the torrent loop, up to the calls that persist
NextTorrent ==
    /\ pc = "torrents"
    /\ torrents_left # <<>>
    /\ LET movie == Catalog[cur.movie]
           movie_id == ToString(movie.id)
           movie_name == Sanitize(movie.title_long)
           torrent == Head(torrents_left)
           quality == torrent.quality
           cached == IsMovieCached(processed_movies_cache, movie_id, quality)
           by_genre == args.categorize # "" /\ args.categorize # "rating"
           wanted == ~cached /\ QualityMatches(QualityOf(args), quality)
           gl == IF ~wanted THEN <<>>
                 ELSE IF by_genre THEN MovieGenres(movie) ELSE <<"">>
           tl == Tail(torrents_left)
       IN  /\ torrents_left' = tl
           /\ genres_left' = gl
           /\ cur' = [cur EXCEPT !.quality = quality, !.hash = torrent.hash]
           /\ csv_log' = IF wanted /\ ~by_genre
                         THEN csv_log \cup {<<movie_id, quality>>} ELSE csv_log
           /\ pc' = PcAfter(movies_left, tl, gl)
           /\ movies_left' = MoviesAfter(movies_left, tl, gl)
           /\ hist' = [hist EXCEPT !.variant = [accepted |-> wanted, written |-> 0]]
    /\ UNCHANGED <<pg, cl, up, rec, rq, bp, eh, um, mp, args, upstream, now, files, cacheFile, processed_movies_cache,
                   downloaded_movie_ids, existing_file_counter, skip_exit_condition,
                   movie_count, pages_left, run>>

\* the prompt that resets the counter and leaves skip_exit_condition alone
MutPromptExistingFiles(auto_continue, counter, skip, exit_answer) ==
    IF auto_continue
    THEN [counter |-> 0, skip |-> skip, exit |-> FALSE, fired |-> TRUE, blocked |-> FALSE]
    ELSE IF exit_answer = "n"
    THEN [counter |-> counter, skip |-> skip, exit |-> TRUE, fired |-> TRUE, blocked |-> TRUE]
    ELSE IF exit_answer = "y"
    THEN [counter |-> 0, skip |-> skip, exit |-> FALSE, fired |-> TRUE, blocked |-> TRUE]
    ELSE [counter |-> counter, skip |-> skip, exit |-> FALSE, fired |-> TRUE, blocked |-> TRUE]

\* Scraper.__prompt_existing_files: the counter, the flag, whether the run
\* exits and whether input() was waited for
PromptExistingFiles(auto_continue, counter, skip, exit_answer) ==
    IF auto_continue
    THEN [counter |-> 0, skip |-> TRUE, exit |-> FALSE, fired |-> TRUE, blocked |-> FALSE]
    ELSE IF exit_answer = "n"
    THEN [counter |-> counter, skip |-> skip, exit |-> TRUE, fired |-> TRUE, blocked |-> TRUE]
    ELSE IF exit_answer = "y"
    THEN [counter |-> 0, skip |-> TRUE, exit |-> FALSE, fired |-> TRUE, blocked |-> TRUE]
    ELSE [counter |-> counter, skip |-> skip, exit |-> FALSE, fired |-> TRUE, blocked |-> TRUE]

\* the test that opens the escape hatch one file early
MutHatchOpen(counter, skip) == counter >= ExistingFileLimit /\ ~skip

\* self.existing_file_counter > 10 and not self.skip_exit_condition
HatchOpen(counter, skip) == counter > ExistingFileLimit /\ ~skip

\* Scraper.__save_magnet_info on the state s = [files, cache, ids, counter, skip]:
\* __save_magnet_info that returns at once when it finds the file
MutSaveMagnetInfoNoRecord(a, s, torrent_hash, path, movie_name, movie_id, quality, imdb_id, year, t, exit_answer) ==
    IF a.csv_only
    THEN [files |-> s.files, cache |-> s.cache, ids |-> s.ids, counter |-> s.counter,
          skip |-> s.skip, ret |-> "None", exit |-> FALSE, fired |-> FALSE,
          blocked |-> FALSE]
    ELSE
      LET p == IF HatchOpen(s.counter, s.skip)
               THEN PromptExistingFiles(a.auto_continue, s.counter, s.skip, exit_answer)
               ELSE [counter |-> s.counter, skip |-> s.skip, exit |-> FALSE,
                     fired |-> FALSE, blocked |-> FALSE]
          magnet_file_path == MagnetFilePath(path)
      IN  IF p.exit
          THEN [files |-> s.files, cache |-> s.cache, ids |-> s.ids, counter |-> s.counter,
                skip |-> s.skip, ret |-> "", exit |-> TRUE, fired |-> TRUE,
                blocked |-> TRUE]
          ELSE IF MagnetFileExists(s.files, path)
          THEN [files |-> s.files,
                cache |-> s.cache,
                ids |-> s.ids, counter |-> p.counter + 1, skip |-> p.skip,
                ret |-> "False", exit |-> FALSE, fired |-> p.fired, blocked |-> p.blocked]
          ELSE [files |-> DictSet(s.files, magnet_file_path,
                                  MagnetInfo(torrent_hash, movie_name, movie_id, quality,
                                             imdb_id, year, t)),
                cache |-> CacheMovie(s.cache, movie_id, movie_name, year, quality, t),
                ids |-> s.ids \cup {movie_id}, counter |-> 0, skip |-> p.skip,
                ret |-> "True", exit |-> FALSE, fired |-> p.fired, blocked |-> p.blocked]

\* the state after the call, what it returned, whether it left the process,
\* whether it called __prompt_existing_files and whether that waited for input
SaveMagnetInfo(a, s, torrent_hash, path, movie_name, movie_id, quality, imdb_id, year, t, exit_answer) ==
    IF a.csv_only
    THEN [files |-> s.files, cache |-> s.cache, ids |-> s.ids, counter |-> s.counter,
          skip |-> s.skip, ret |-> "None", exit |-> FALSE, fired |-> FALSE,
          blocked |-> FALSE]
    ELSE
      LET p == IF HatchOpen(s.counter, s.skip)
               THEN PromptExistingFiles(a.auto_continue, s.counter, s.skip, exit_answer)
               ELSE [counter |-> s.counter, skip |-> s.skip, exit |-> FALSE,
                     fired |-> FALSE, blocked |-> FALSE]
          magnet_file_path == MagnetFilePath(path)
      IN  IF p.exit
          THEN [files |-> s.files, cache |-> s.cache, ids |-> s.ids, counter |-> s.counter,
                skip |-> s.skip, ret |-> "", exit |-> TRUE, fired |-> TRUE,
                blocked |-> TRUE]
          ELSE IF MagnetFileExists(s.files, path)
          THEN [files |-> s.files,
                cache |-> CacheMovie(s.cache, movie_id, movie_name, year, quality, t),
                ids |-> s.ids, counter |-> p.counter + 1, skip |-> p.skip,
                ret |-> "False", exit |-> FALSE, fired |-> p.fired, blocked |-> p.blocked]
          ELSE [files |-> DictSet(s.files, magnet_file_path,
                                  MagnetInfo(torrent_hash, movie_name, movie_id, quality,
                                             imdb_id, year, t)),
                cache |-> CacheMovie(s.cache, movie_id, movie_name, year, quality, t),
                ids |-> s.ids \cup {movie_id}, counter |-> 0, skip |-> p.skip,
                ret |-> "True", exit |-> FALSE, fired |-> p.fired, blocked |-> p.blocked]

\* one persist call of the torrent loop: __build_path, then __save_magnet_info
Persist ==
    /\ pc = "persist"
    /\ genres_left # <<>>
    /\ \E exit_answer \in {"y", "n", "?"} :
        LET movie == Catalog[cur.movie]
            movie_id == ToString(movie.id)
            movie_name == Sanitize(movie.title_long)
            genre == Head(genres_left)
            path == BuildPath(args, movie_name, 0, cur.quality, genre, movie.imdb_code,
                              ToString(movie.year))
            s == [files |-> files, cache |-> processed_movies_cache,
                  ids |-> downloaded_movie_ids, counter |-> existing_file_counter,
                  skip |-> skip_exit_condition]
            r == SaveMagnetInfo(args, s, cur.hash, path, movie_name, movie_id, cur.quality,
                                movie.imdb_code, movie.year, now, exit_answer)
            gl == Tail(genres_left)
        IN  IF r.exit
            THEN /\ pc' = "exit0"
                 /\ UNCHANGED <<files, processed_movies_cache, downloaded_movie_ids,
                                existing_file_counter, skip_exit_condition, genres_left,
                                movies_left, hist>>
            ELSE /\ files' = r.files
                 /\ processed_movies_cache' = r.cache
                 /\ downloaded_movie_ids' = r.ids
                 /\ existing_file_counter' = r.counter
                 /\ skip_exit_condition' = r.skip
                 /\ genres_left' = gl
                 /\ pc' = PcAfter(movies_left, torrents_left, gl)
                 /\ movies_left' = MoviesAfter(movies_left, torrents_left, gl)
                 /\ hist' = [hist EXCEPT
                        !.written = IF r.ret = "True"
                                    THEN @ \cup {[path |-> path, id |-> movie.id,
                                                  quality |-> cur.quality]}
                                    ELSE @,
                        !.recorded = IF r.ret \in {"True", "False"}
                                     THEN @ \cup {<<movie.id, cur.quality>>} ELSE @,
                        !.variant.written = IF r.ret = "True" THEN @ + 1 ELSE @,
                        !.last = [path |-> path,
                                  existed |-> (path \o <<".magnet">>) \in DOMAIN files,
                                  ret |-> r.ret, id |-> movie_id]]
    /\ UNCHANGED <<pg, cl, up, rec, rq, bp, eh, um, mp, args, upstream, now, cacheFile, csv_log, movie_count, pages_left,
                   torrents_left, cur, run>>

\* Scraper._save_cache: the file after the call
SaveCache(file, cache, outcome) ==
    CASE outcome = "ok" -> JsonFile(cache)
      [] outcome = "open_fails" -> file
      [] OTHER -> CorruptFile

\* the last line of Scraper.download
SaveCacheStep ==
    /\ pc = "finished"
    /\ \E outcome \in {"ok", "open_fails", "write_fails"} :
        /\ cacheFile' = SaveCache(cacheFile, processed_movies_cache, outcome)
        /\ hist' = [hist EXCEPT !.saved = (outcome = "ok")]
    /\ pc' = "done"
    /\ UNCHANGED <<pg, cl, up, rec, rq, bp, eh, um, mp, args, upstream, now, files, csv_log, processed_movies_cache,
                   downloaded_movie_ids, existing_file_counter, skip_exit_condition,
                   movie_count, pages_left, movies_left, torrents_left, genres_left,
                   cur, run>>

\* the scheduler starts the pipeline again, some days later, as a new process
StartRun ==
    /\ pc \in {"done", "exit0", "crashed"}
    /\ run < MaxRuns
    /\ \E gap \in Gaps : now' = now + gap
    /\ run' = run + 1
    /\ pc' = "new"
    /\ hist' = NoHist(pc = "done" /\ hist.saved /\ ~hist.fetch_failed, hist.start.cached)
    /\ processed_movies_cache' = EmptyDict
    /\ downloaded_movie_ids' = {}
    /\ existing_file_counter' = 0
    /\ skip_exit_condition' = FALSE
    /\ movie_count' = 0
    /\ pages_left' = <<>>
    /\ movies_left' = <<>>
    /\ torrents_left' = <<>>
    /\ genres_left' = <<>>
    /\ cur' = NoCur
    /\ UNCHANGED <<pg, cl, up, rec, rq, bp, eh, um, mp, args, upstream, files, cacheFile, csv_log>>

ScrNext ==
    \/ ScraperInit
    \/ GetApiData
    \/ InitializeDownload
    \/ FetchPage
    \/ FinishDownload
    \/ FilterTorrents
    \/ NextTorrent
    \/ Persist
    \/ SaveCacheStep
    \/ StartRun

Idle == "idle"

\* the components that are looked at on their own stand still
OthersIdle == rec = Idle /\ rq = Idle /\ bp = Idle /\ eh = Idle /\ um = Idle /\ mp = Idle

Init == ScrInit /\ pg = Idle /\ cl = Idle /\ up = Idle /\ OthersIdle

Next == ScrNext

Spec == Init /\ [][Next]_vars

(***************************************************************************)
(* The scrape pipeline when a descriptor file cannot be written            *)
(***************************************************************************)
\* a persist call of the sequential torrent loop whose open(magnet_file_path,
\* 'w') raises OSError: nothing between __save_magnet_info and the caller of
\* download() catches it, so the exception leaves __filter_torrents, the
\* loops of __initialize_download and download(), and the process ends
PersistWriteFails ==
    /\ pc = "persist"
    /\ genres_left # <<>>
    /\ \E exit_answer \in {"y", "?"} :
        LET movie == Catalog[cur.movie]
            movie_id == ToString(movie.id)
            movie_name == Sanitize(movie.title_long)
            path == BuildPath(args, movie_name, 0, cur.quality, Head(genres_left),
                              movie.imdb_code, ToString(movie.year))
            s == [files |-> files, cache |-> processed_movies_cache,
                  ids |-> downloaded_movie_ids, counter |-> existing_file_counter,
                  skip |-> skip_exit_condition]
            r == SaveMagnetInfo(args, s, cur.hash, path, movie_name, movie_id, cur.quality,
                                movie.imdb_code, movie.year, now, exit_answer)
        IN  /\ r.ret = "True"
            /\ existing_file_counter' = IF r.fired /\ r.skip THEN 0 ELSE existing_file_counter
            /\ skip_exit_condition' = r.skip
    /\ pc' = "crashed"
    /\ hist' = [hist EXCEPT !.write_failed = TRUE]
    /\ UNCHANGED <<pg, cl, up, rec, rq, bp, eh, um, mp, args, upstream, now, files, cacheFile, csv_log,
                   processed_movies_cache, downloaded_movie_ids, movie_count, pages_left,
                   movies_left, torrents_left, genres_left, cur, run>>

InitFaults == Init

NextFaults == ScrNext \/ PersistWriteFails

SpecFaults == InitFaults /\ [][NextFaults]_vars

\* C32: a persist call that cannot write its descriptor file does not end
\* the run: the run goes on to the releases and pages that are left and to
\* the save of the cache.
C32_WriteFailureDoesNotAbort ==
    hist.write_failed => pc # "crashed"

(***************************************************************************)
(* Claims about the scrape pipeline                                        *)
(***************************************************************************)

\* C33: a run that leaves with status 0 after the page loop began, whether
\* at the end of download() or at the answer 'n' to the prompt, has written
\* the cache file, and the file holds the cache of the run.
C33_CleanExitSavesCache ==
    /\ (pc = "exit0" /\ hist.requested # <<>>) =>
           cacheFile = JsonFile(processed_movies_cache)
    /\ (pc = "done" /\ hist.saved) => cacheFile = JsonFile(processed_movies_cache)

\* C38: when a run ends, every (release id, quality) pair it accepted and
\* persisted has a descriptor file whose movie_id is that release id.
C38_OwnDescriptorPerRelease ==
    (pc = "done" /\ ~args.csv_only) =>
        \A pr \in hist.recorded :
            \E p \in DOMAIN files :
                files[p].movie_id = ToString(pr[1]) /\ files[p].quality = pr[2]

\* C1 as stated: a run that follows a run which fetched every page and saved
\* its cache, over the same listing and the same output directory, writes no
\* descriptor.
C1_AsStated ==
    (run >= 2 /\ hist.prev_clean) => hist.written = {}

\* C1, amended: such a run writes no descriptor provided every (release,
\* quality) pair the first run loaded from the cache is loaded again by the
\* second, none having passed the retention window in between.
C1_SecondRunWritesNothing ==
    (run >= 2 /\ hist.prev_clean /\ pc # "new" /\ hist.prev_cached \subseteq hist.start.cached)
        => hist.written = {}

\* a second run, after a clean first one, came to its end and found a
\* descriptor of the first run in its way
C1_Witness ==
    /\ run = 2 /\ hist.prev_clean /\ pc = "done"
    /\ hist.prev_cached \subseteq hist.start.cached
    /\ hist.last.ret = "False" /\ hist.written = {}

\* C2: a descriptor file that exists is never written again: every file keeps
\* the content of its first write, and the persist call that finds its file
\* returns written = false.
C2_NeverOverwritten ==
    /\ [][\A p \in DOMAIN files : p \in DOMAIN files' /\ files'[p] = files[p]]_vars
    /\ [](hist.last.existed => hist.last.ret = "False")

\* a persist call of a later day found the file of an earlier day and left it
C2_Witness ==
    /\ hist.last.existed /\ hist.last.ret = "False"
    /\ (hist.last.path \o <<".magnet">>) \in DOMAIN files
    /\ files[hist.last.path \o <<".magnet">>].created_at # IsoFormat(now)

\* C3: a release whose year is below the year floor reaches neither the
\* output directory nor the cache, whatever the other settings.
C3_BelowFloorNeverPersisted ==
    /\ \A w \in hist.written : Catalog[w.id].year >= args.year_limit
    /\ \A r \in hist.recorded : Catalog[r[1]].year >= args.year_limit
    /\ \A p \in DOMAIN files : files[p].year >= args.year_limit
    /\ \A m \in DOMAIN processed_movies_cache :
           processed_movies_cache[m].year >= args.year_limit

\* a run rejected a release for its year and persisted others
C3_Witness ==
    /\ hist.year_rejected # {} /\ hist.written # {} /\ pc = "done"

\* the scenario of C9: one page with releases 1 and 2, the wildcard quality
\* filter, an empty output directory, release 2 cached for its only quality and
\* release 1 not cached, in a run that writes descriptors
C9_Scenario ==
    /\ upstream = [movie_count |-> 2, pages |-> << <<1, 2>> >>]
    /\ args.quality = "all" /\ ~args.csv_only
    /\ hist.start.empty_dir
    /\ hist.start.cached = {<<"2", "1080p">>}

\* C9: in that scenario the run creates exactly two descriptor files, one per
\* quality of release 1, each with the magnet URI of its info-hash and the
\* display name, and the saved cache lists both release ids.
C9_EndToEnd ==
    (C9_Scenario /\ pc = "done" /\ hist.saved /\ ~hist.fetch_failed) =>
        /\ Cardinality(DOMAIN files) = 2
        /\ \E p1, p2 \in DOMAIN files :
            /\ files[p1].movie_id = "1" /\ files[p1].quality = "720p"
            /\ files[p1].magnet_link =
                   <<"magnet:?xt=urn:btih:", "H1A", "&dn=", "A", "+", "b">> \o Trackers
            /\ files[p2].movie_id = "1" /\ files[p2].quality = "1080p"
            /\ files[p2].magnet_link =
                   <<"magnet:?xt=urn:btih:", "H1B", "&dn=", "A", "+", "b">> \o Trackers
        /\ cacheFile.valid
        /\ {"1", "2"} \subseteq DOMAIN cacheFile.data

\* the scenario ran to its end
C9_Witness ==
    /\ C9_Scenario /\ pc = "done" /\ hist.saved /\ ~hist.fetch_failed
    /\ Cardinality(hist.written) = 2

\* C15: a persist call that finds a descriptor at the derived path leaves
\* every file as it is, records the (id, quality) pair in the cache and
\* returns False; one that finds none writes the descriptor there, records
\* the pair and returns True.
C15_PersistOutcome ==
    [][(pc = "persist" /\ pc' # "exit0" /\ ~args.csv_only) =>
          LET magnet_file_path == hist'.last.path \o <<".magnet">>
              recorded == /\ hist'.last.id \in DOMAIN processed_movies_cache'
                          /\ cur.quality \in
                                Elems(processed_movies_cache'[hist'.last.id]["qualities"])
          IN  IF magnet_file_path \in DOMAIN files
              THEN files' = files /\ recorded /\ hist'.last.ret = "False"
              ELSE /\ DOMAIN files' = DOMAIN files \cup {magnet_file_path}
                   /\ \A f \in DOMAIN files : files'[f] = files[f]
                   /\ files'[magnet_file_path].movie_id = hist'.last.id
                   /\ files'[magnet_file_path].quality = cur.quality
                   /\ files'[magnet_file_path].hash = cur.hash
                   /\ recorded
                   /\ hist'.last.ret = "True"]_vars

\* a persist call found the descriptor of a pair the cache did not hold at
\* the start of the run, and the pair is in the cache now
C15_Witness ==
    /\ pc # "persist" /\ run = 1
    /\ hist.last.existed /\ hist.last.ret = "False"
    /\ hist.start.cached = {}
    /\ IsMovieCached(processed_movies_cache, hist.last.id, cur.quality)
    /\ hist.written = {}

\* C18: when the count request fails on all its attempts the process ends
\* with exit status 0, having requested no page and written no descriptor.
C18_CountFailureExits ==
    hist.count = "fails" =>
        /\ pc = "exit0"
        /\ hist.requested = <<>>
        /\ hist.written = {}
        /\ hist.recorded = {}

\* the count request of a second run failed, over descriptors of the first
C18_Witness ==
    /\ run = 2 /\ hist.count = "fails" /\ pc = "exit0"
    /\ files # EmptyDict /\ hist.requested = <<>>

\* C19: the pages of the range are requested once each, in increasing order,
\* and a run that reaches the end of the loop has requested them all,
\* whichever requests failed.
C19_PagesInOrder ==
    /\ \A i \in DOMAIN hist.requested : hist.requested[i] = args.page + i - 1
    /\ pc \in {"finished", "done"} =>
          LET n == (movie_count \div 50) + 1
              pageCount == IF n = 1 THEN 2 ELSE n
          IN  Len(hist.requested) = IF pageCount > args.page THEN pageCount - args.page ELSE 0

\* the request for page 1 failed (nothing of releases 1 and 4 was written into
\* the empty directory) and page 2 was requested and its releases persisted
C19_Witness ==
    /\ pc = "done" /\ hist.fetch_failed /\ hist.requested = <<1, 2>>
    /\ hist.start.empty_dir /\ hist.start.cached = {}
    /\ args.quality = "all" /\ args.year_limit = 0 /\ ~args.csv_only
    /\ hist.written # {}
    /\ \A w \in hist.written : w.id \in {2, 3}

\* C20: a count response that cannot be decoded is logged and the run goes on
\* without an unhandled error.
C20_UndecodableCountContinues ==
    hist.count = "undecodable" => pc # "crashed"

\* C21: a release whose id is in downloaded_movie_ids is rejected before any
\* of its torrents is looked at, and within one run no (release, quality)
\* pair has a descriptor written for it twice.
C21_RepeatedReleaseRejected ==
    /\ [][(pc = "movies" /\ ToString(Head(movies_left)) \in downloaded_movie_ids) =>
              /\ torrents_left' = <<>> /\ genres_left' = genres_left
              /\ pc' \in {"movies", "pages"}
              /\ files' = files /\ processed_movies_cache' = processed_movies_cache
              /\ csv_log' = csv_log]_vars
    /\ [][(pc = "persist" /\ files' # files) =>
              ~\E w \in hist.written : w.id = cur.movie /\ w.quality = cur.quality]_vars

\* release 1, written earlier in the run, came again in the listing and was
\* rejected with none of its torrents looked at
C21_Witness ==
    /\ cur.movie = 1 /\ cur.quality = "" /\ torrents_left = <<>>
    /\ "1" \in downloaded_movie_ids
    /\ \E w \in hist.written : w.id = 1
    /\ pc = "pages"

\* C22: with categorization by genre and an output directory that is empty
\* when the run starts, the persist calls made for an accepted torrent of a
\* release return True once for each genre of the release, "None" standing
\* for the genres of a release that has none.
C22_OneOutputPerGenre ==
    (/\ args.categorize = "genre" /\ ~args.csv_only
     /\ run = 1 /\ hist.start.empty_dir
     /\ hist.variant.accepted /\ genres_left = <<>> /\ pc \notin {"persist", "exit0"})
        => hist.variant.written = Len(MovieGenres(Catalog[cur.movie]))

(***************************************************************************)
(* The page arithmetic on its own: __get_api_data and the page loop of     *)
(* __initialize_download, for every total count and starting page.  The    *)
(* content of the pages plays no part in which pages are requested.        *)
(***************************************************************************)
PgInit ==
    pg \in {[total |-> n, page_arg |-> p, movie_count |-> 0, pages_left |-> <<>>,
             requested |-> <<>>, pc |-> "constructed"] :
                n \in 0..MaxTotalCount, p \in 1..MaxStartPage}

\* Scraper.__get_api_data, the count request answered
PgGetApiData ==
    /\ pg.pc = "constructed"
    /\ pg' = [pg EXCEPT !.movie_count = AdjustedCount(pg.total, pg.page_arg),
                        !.pc = "got_api"]
    /\ UNCHANGED scrVars
    /\ UNCHANGED <<cl, up, rec, rq, bp, eh, um, mp>>

\* Scraper.__initialize_download up to the page loop
PgInitializeDownload ==
    /\ pg.pc = "got_api"
    /\ LET page_count == PageCount(pg.movie_count)
           range_ == PageRange(pg.page_arg, page_count)
       IN  pg' = IF pg.movie_count <= 0
                 THEN [pg EXCEPT !.pc = "exit0"]
                 ELSE [pg EXCEPT !.pc = "pages", !.pages_left = range_]
    /\ UNCHANGED scrVars
    /\ UNCHANGED <<cl, up, rec, rq, bp, eh, um, mp>>

\* one turn of the page loop: the page is requested, whatever the answer
PgFetchPage ==
    /\ pg.pc = "pages"
    /\ pg.pages_left # <<>>
    /\ pg' = [pg EXCEPT !.requested = Append(@, Head(pg.pages_left)),
                        !.pages_left = Tail(@)]
    /\ UNCHANGED scrVars
    /\ UNCHANGED <<cl, up, rec, rq, bp, eh, um, mp>>

\* the end of the page loop
PgFinishDownload ==
    /\ pg.pc = "pages"
    /\ pg.pages_left = <<>>
    /\ pg' = [pg EXCEPT !.pc = "finished"]
    /\ UNCHANGED scrVars
    /\ UNCHANGED <<cl, up, rec, rq, bp, eh, um, mp>>

\* the scraper stands still while another component is looked at
ScrIdle ==
    /\ args = [quality |-> "all", categorize |-> "rating", year_limit |-> 0,
               csv_only |-> FALSE, auto_continue |-> FALSE, imdb_id |-> FALSE,
               page |-> 1, output |-> "out"]
    /\ upstream = [movie_count |-> 0, pages |-> <<>>]
    /\ now = FirstDay
    /\ files = EmptyDict
    /\ cacheFile = NoFile
    /\ csv_log = {}
    /\ processed_movies_cache = EmptyDict
    /\ downloaded_movie_ids = {}
    /\ existing_file_counter = 0
    /\ skip_exit_condition = FALSE
    /\ movie_count = 0
    /\ pages_left = <<>>
    /\ movies_left = <<>>
    /\ torrents_left = <<>>
    /\ genres_left = <<>>
    /\ cur = NoCur
    /\ pc = "idle"
    /\ run = 1
    /\ hist = NoHist(FALSE, {})

InitPages == ScrIdle /\ PgInit /\ cl = Idle /\ up = Idle /\ OthersIdle

NextPages ==
    \/ PgGetApiData
    \/ PgInitializeDownload
    \/ PgFetchPage
    \/ PgFinishDownload

SpecPages == InitPages /\ [][NextPages]_vars

\* the pages of the listing that hold results, for a page size of limit
ResultPages(total) == 1..((total + limit - 1) \div limit)

\* the pages a run has requested
Requested == Elems(pg.requested)

\* C4: from page 1 the pages requested are 1 .. pageCount - 1, in that order,
\* with pageCount = trunc(totalCount / 50) + 1 raised to 2 when it is 1; for
\* 120 they are 1 and 2 and never 3, for 40 page 1 alone.
C4_PagesRequested ==
    /\ (pg.page_arg = 1 /\ pg.pc = "finished") =>
          LET n == (pg.total \div 50) + 1
              pageCount == IF n = 1 THEN 2 ELSE n
          IN  pg.requested = [i \in 1..(pageCount - 1) |-> i]
    /\ (pg.page_arg = 1 /\ pg.total = 120) => 3 \notin Requested
    /\ (pg.page_arg = 1 /\ pg.total = 120 /\ pg.pc = "finished") => pg.requested = <<1, 2>>
    /\ (pg.page_arg = 1 /\ pg.total = 40 /\ pg.pc = "finished") => pg.requested = <<1>>

\* the run over 120 releases from page 1 has ended
C4_Witness ==
    pg.page_arg = 1 /\ pg.total = 120 /\ pg.pc = "finished" /\ pg.requested = <<1, 2>>

\* C5: a run that passes the count check requests at least one page.
C5_RangeNeverEmpty ==
    pg.pc = "finished" => pg.requested # <<>>

\* every page that holds results has been requested
AllResultPagesRequested == ResultPages(pg.total) \subseteq Requested

\* C6 as stated: from page 1, when the total count is no multiple of the page
\* size, every page that holds results is requested.
C6_AsStated ==
    (pg.page_arg = 1 /\ pg.pc = "finished" /\ pg.total % limit # 0)
        => AllResultPagesRequested

\* C6, amended: from page 1, the last page that holds results is left
\* unrequested exactly when the total count is above the page size and no
\* multiple of it; every page before the last is requested in any case.
C6_LastPageSkipped ==
    (pg.page_arg = 1 /\ pg.pc = "finished") =>
        LET last == (pg.total + limit - 1) \div limit
        IN  /\ (last \notin Requested) <=> (pg.total > limit /\ pg.total % limit # 0)
            /\ 1..(last - 1) \subseteq Requested

\* 120 releases: page 3 holds the last 20 and was not requested
C6_Witness ==
    /\ pg.page_arg = 1 /\ pg.pc = "finished" /\ pg.total = 120
    /\ 3 \in ResultPages(pg.total) /\ 3 \notin Requested

(***************************************************************************)
(* PersistentCache load on its own, over the files that may be stored      *)
(***************************************************************************)
\* the times of the load
LoadDays == {FirstDay, FirstDay + RetentionDays}

\* an entry as stored, last seen on day d, or without its last_seen
StoredEntries(t) ==
    {[name |-> <<"n">>, year |-> 2020, qualities |-> <<"720p">>,
      first_seen |-> IsoFormat(t - 40)]}
    \cup {[name |-> <<"n">>, year |-> 2020, qualities |-> <<"720p">>,
           first_seen |-> IsoFormat(t - 40), last_seen |-> IsoFormat(d)] :
             d \in {t - RetentionDays - 1, t - RetentionDays, t - RetentionDays + 1, t - 1}}

\* the cache files that may be on disk at time t
StoredFiles(t) ==
    {NoFile, CorruptFile}
    \cup {JsonFile(d) : d \in UNION {[ids -> StoredEntries(t)] : ids \in SUBSET {"1", "2"}}}

ClInit ==
    cl \in {[file |-> f, now |-> t, cache |-> EmptyDict, pc |-> "stored"] :
               t \in LoadDays, f \in UNION {StoredFiles(d) : d \in LoadDays}}

\* Scraper._load_cache
ClLoadCache ==
    /\ cl.pc = "stored"
    /\ cl' = [cl EXCEPT !.cache = LoadCache(cl.file, cl.now), !.pc = "loaded"]
    /\ UNCHANGED scrVars
    /\ UNCHANGED <<pg, up, rec, rq, bp, eh, um, mp>>

InitCache == ScrIdle /\ pg = Idle /\ ClInit /\ up = Idle /\ OthersIdle

NextCache == ClLoadCache

SpecCache == InitCache /\ [][NextCache]_vars

\* an entry was last seen later than 30 days before the load
SeenWithinRetention(e, t) ==
    "last_seen" \in DOMAIN e /\ IsoDay(e["last_seen"]) > t - 30

\* C10: after a load at time T every entry returned was last seen later than
\* T - 30 days; of a file that parses, the entries not seen since then, or
\* without a last_seen, are dropped and the others are returned as stored.
C10_LoadDropsOldEntries ==
    cl.pc = "loaded" =>
        /\ \A m \in DOMAIN cl.cache : SeenWithinRetention(cl.cache[m], cl.now)
        /\ (cl.file.exists /\ cl.file.valid) =>
              /\ DOMAIN cl.cache \subseteq DOMAIN cl.file.data
              /\ \A m \in DOMAIN cl.file.data :
                    IF SeenWithinRetention(cl.file.data[m], cl.now)
                    THEN m \in DOMAIN cl.cache /\ cl.cache[m] = cl.file.data[m]
                    ELSE m \notin DOMAIN cl.cache

\* a load kept one entry and dropped one that was seen exactly 30 days before
C10_Witness ==
    /\ cl.pc = "loaded" /\ cl.file.valid
    /\ DOMAIN cl.file.data = {"1", "2"} /\ DOMAIN cl.cache = {"2"}
    /\ "last_seen" \in DOMAIN cl.file.data["1"]
    /\ IsoDay(cl.file.data["1"]["last_seen"]) = cl.now - 30

(***************************************************************************)
(* The upload orchestrators: .github/scripts/upload_to_real_debrid.py      *)
(* (adaptive), real_debrid_smart_uploader.py (smart) and                   *)
(* real_debrid_cached_uploader.py (cached)                                 *)
(***************************************************************************)
Variants == {"adaptive", "smart", "cached"}

\* what a .magnet file holds: a record with its magnet link, a record without
\* one, or nothing json can load
Kinds == {"ok", "nolink", "unreadable"}

\* the error codes of a rate limit and of too many active downloads
RateLimitCodes == {34, 21}

\* the answers to POST /torrents/addMagnet: created, an error with its code
\* (34, 21, or another one, 35), an error body that is no JSON, no answer
Responses == {"201", "34", "21", "35", "nonjson", "exception"}

\* error_data.get('error_code') of an answer
ErrorCode(resp) == CASE resp = "34" -> 34 [] resp = "21" -> 21 [] resp = "35" -> 35
                     [] OTHER -> 0

\* the directories: MaxFiles files in the order os.walk finds them, or none;
\* at most the second file is damaged
MagnetDirs ==
    {<<>>} \cup
    {[k \in 1..MaxFiles |-> [id |-> k, mtime |-> mt[k],
                             kind |-> IF k = 2 THEN kd ELSE "ok"]] :
        mt \in [1..MaxFiles -> 1..MaxMtime], kd \in Kinds}

\* list.sort(key=getmtime, reverse=True) is stable: x goes behind the files
\* that are as new as it
RECURSIVE InsertNewestFirst(_, _)
InsertNewestFirst(x, sorted) ==
    IF sorted = <<>> THEN <<x>>
    ELSE IF Head(sorted).mtime >= x.mtime
         THEN <<Head(sorted)>> \o InsertNewestFirst(x, Tail(sorted))
         ELSE <<x>> \o sorted

RECURSIVE SortPrefix(_, _)
SortPrefix(fs, n) ==
    IF n = 0 THEN <<>> ELSE InsertNewestFirst(fs[n], SortPrefix(fs, n - 1))

\* the sort that puts the oldest file first
RECURSIVE MutSortOldestFirst(_)
MutSortOldestFirst(fs) ==
    IF fs = <<>> THEN <<>>
    ELSE LET rest == MutSortOldestFirst(Tail(fs))
             x == Head(fs)
             before == SelectSeq(rest, LAMBDA y : y.mtime < x.mtime)
             after == SelectSeq(rest, LAMBDA y : y.mtime >= x.mtime)
         IN  before \o <<x>> \o after

\* magnet_files.sort(key=lambda x: os.path.getmtime(x), reverse=True)
SortNewestFirst(fs) == SortPrefix(fs, Len(fs))

\* the list left whole
MutTruncate(fs, n) == fs

\* magnet_files[:max_uploads_per_run], for a limit that is not negative
Truncate(fs, n) == IF Len(fs) > n THEN SubSeq(fs, 1, n) ELSE fs

\* the answers to GET /user: the account, a refusal, no answer
ProbeAnswers == {"200", "401", "exception"}

\* the probe that takes a request that got no answer for a success
MutTestApiConnection(answer) == answer # "401"

\* test_api_connection: True for status 200 alone
TestApiConnection(answer) == answer = "200"

\* what get_torrent_info and the POST to /torrents/selectFiles come to: the
\* files selected, a torrent without files, no torrent info, a refusal of
\* the selection
SelectOutcomes == {"selected", "no_files", "info_fails", "select_fails"}

\* select_files: what it returns and the requests it sends
SelectFiles(outcome) ==
    [ok |-> outcome \in {"selected", "no_files"},
     sent |-> IF outcome \in {"selected", "select_fails"}
              THEN {"info", "selectFiles"} ELSE {"info"}]

\* an orchestrator as main starts it: the uploader as __init__ leaves it, the
\* counters of main at 0, nothing sent
UpStart(v, d, m) ==
    [variant |-> v, dir |-> d, max_uploads_per_run |-> m, pc |-> "start",
     probe |-> "", sent |-> {}, last_ok |-> "",
     magnet_files |-> <<>>, i |-> 1, attempt |-> 0,
     consecutive_rate_limits |-> 0, active_downloads |-> 0,
     consecutive_failures |-> 0,
     successful_uploads |-> 0, failed_uploads |-> 0, skipped_uploads |-> 0,
     magnet_data |-> <<>>, cached_torrents |-> <<>>, checked |-> 0, covered |-> <<>>,
     log |-> <<>>, retried |-> FALSE, streak |-> 0, tripped |-> FALSE,
     run |-> 1, uploaded |-> {}, prev |-> [skipped |-> {}, uploaded |-> {}]]

UpInit ==
    up \in {UpStart(v, d, m) : v \in Variants, d \in MagnetDirs, m \in {0, MaxFiles - 1, 50}}

\* test_api_connection and the exit of main when it fails
UpTestConnection ==
    /\ up.pc = "start"
    /\ \E answer \in ProbeAnswers :
        up' = [up EXCEPT !.probe = answer,
                         !.pc = IF TestApiConnection(answer) THEN "connected" ELSE "exit1"]
    /\ UNCHANGED scrVars
    /\ UNCHANGED <<pg, cl, rec, rq, bp, eh, um, mp>>

\* main from find_magnet_files to the start of the loop
UpFindFiles ==
    /\ up.pc = "connected"
    /\ LET magnet_files == Truncate(SortNewestFirst(up.dir), up.max_uploads_per_run)
           u1 == IF up.variant = "adaptive"
                 THEN [up EXCEPT !.sent = @ \cup {"torrents"}] ELSE up
       IN  up' = IF up.dir = <<>>
                 THEN [u1 EXCEPT !.pc = "done"]
                 ELSE [u1 EXCEPT !.magnet_files = magnet_files, !.i = 1,
                                 !.pc = IF up.variant = "cached" THEN "load"
                                        ELSE IF magnet_files = <<>> THEN "done"
                                        ELSE "loop"]
    /\ UNCHANGED scrVars
    /\ UNCHANGED <<pg, cl, rec, rq, bp, eh, um, mp>>

\* the loop of main moves to the next file, or ends
NextItem(u) ==
    [u EXCEPT !.i = u.i + 1, !.attempt = 0,
              !.pc = IF u.i + 1 > Len(u.magnet_files) THEN "done" ELSE "loop"]

\* the history of the POSTs to /torrents/addMagnet: log holds the files
\* submitted, a file once for the attempts that follow one another; streak
\* counts the rate-limit answers that follow one another
Logged(u, magnet_file, resp) ==
    [u EXCEPT !.log = IF u.log # <<>> /\ u.log[Len(u.log)] = magnet_file
                      THEN u.log ELSE Append(u.log, magnet_file),
              !.sent = @ \cup {"addMagnet"},
              !.retried = u.retried \/ u.attempt > 0,
              !.streak = IF resp \in {"34", "21"} THEN u.streak + 1 ELSE 0,
              !.tripped = u.tripped \/ (resp \in {"34", "21"} /\ u.streak + 1 >= RateLimitStop)]

\* the answers to GET /torrents: a list with no active download, a list with
\* as many as the ceiling, no list
PollAnswers == {"idle", "busy", "fails"}

\* get_active_downloads_count: the torrents that are downloading or queued,
\* and 0 when there is no list
GetActiveDownloadsCount(answer) ==
    IF answer = "busy" THEN MaxConcurrentDownloads ELSE 0

\* the call returned success: main calls select_files
Selected(u, outcome) ==
    [u EXCEPT !.sent = @ \cup SelectFiles(outcome).sent,
              !.uploaded = @ \cup {IF u.variant = "cached" THEN u.cached_torrents[u.i].id
                                   ELSE u.magnet_files[u.i].id},
              !.last_ok = IF SelectFiles(outcome).ok THEN "select" ELSE "upload"]

\* main of the adaptive orchestrator, one turn of the loop up to the upload:
\* the pause when too many downloads are active, and load_magnet_info
UpAdaptiveItem ==
    /\ up.variant = "adaptive"
    /\ up.pc = "loop"
    /\ \E answer \in PollAnswers :
        LET u1 == IF up.active_downloads >= MaxConcurrentDownloads
                  THEN [up EXCEPT !.active_downloads = GetActiveDownloadsCount(answer),
                                  !.sent = @ \cup {"torrents"},
                                  !.last_ok = IF answer # "fails" THEN "poll" ELSE ""]
                  ELSE [up EXCEPT !.last_ok = ""]
            magnet_file == up.magnet_files[up.i]
        IN  up' = IF magnet_file.kind # "ok"
                  THEN NextItem([u1 EXCEPT !.failed_uploads = @ + 1])
                  ELSE [u1 EXCEPT !.pc = "upload", !.attempt = 0]
    /\ UNCHANGED scrVars
    /\ UNCHANGED <<pg, cl, rec, rq, bp, eh, um, mp>>

\* what main of the adaptive orchestrator does with a failed upload
AdaptiveFailed(u, error_code) ==
    IF error_code \in RateLimitCodes /\ u.consecutive_rate_limits >= RateLimitStop
    THEN [u EXCEPT !.skipped_uploads = Len(u.magnet_files) - u.i, !.pc = "done"]
    ELSE NextItem([u EXCEPT !.failed_uploads = @ + 1])

\* min(a, b)
Min(a, b) == IF a < b THEN a ELSE b

\* the backoff whose exponent has no cap
MutHandleRateLimitError(consecutive_rate_limits, error_code) ==
    LET c == consecutive_rate_limits + 1
    IN  [consecutive_rate_limits |-> c,
         wait |-> IF error_code = 34 THEN BackoffDelay * (2 ^ (c - 1))
                  ELSE IF error_code = 21 THEN BackoffDelay * 2 ELSE 0]

\* RealDebridUploader._handle_rate_limit_error: the counter after the call
\* and the seconds slept
HandleRateLimitError(consecutive_rate_limits, error_code) ==
    LET c == consecutive_rate_limits + 1
    IN  [consecutive_rate_limits |-> c,
         wait |-> IF error_code = 34 THEN BackoffDelay * (2 ^ Min(c - 1, BackoffCap))
                  ELSE IF error_code = 21 THEN BackoffDelay * 2 ELSE 0]

\* upload_magnet_link that returns at the first rate-limit or quota error
MutUploadMagnetLinkAttempt(attempt, consecutive_rate_limits, resp) ==
    CASE resp = "201" ->
           [consecutive_rate_limits |-> 0, wait |-> 0, again |-> FALSE,
            success |-> TRUE, error_code |-> 0]
      [] resp \in {"34", "21"} ->
           LET h == HandleRateLimitError(consecutive_rate_limits, ErrorCode(resp))
           IN  [consecutive_rate_limits |-> h.consecutive_rate_limits, wait |-> h.wait,
                again |-> FALSE, success |-> FALSE, error_code |-> ErrorCode(resp)]
      [] resp = "exception" ->
           [consecutive_rate_limits |-> consecutive_rate_limits,
            wait |-> IF attempt < AdaptiveMaxRetries - 1 THEN RetryDelay ELSE 0,
            again |-> attempt < AdaptiveMaxRetries - 1,
            success |-> FALSE, error_code |-> 0]
      [] OTHER ->
           [consecutive_rate_limits |-> consecutive_rate_limits, wait |-> 0,
            again |-> FALSE, success |-> FALSE, error_code |-> ErrorCode(resp)]

\* one turn of the loop of RealDebridUploader.upload_magnet_link: the
\* counter after it, the seconds slept for the error, whether the loop goes
\* round again and, when it does not, what the call returns (error_code 0
\* stands for a result without one)
UploadMagnetLinkAttempt(attempt, consecutive_rate_limits, resp) ==
    CASE resp = "201" ->
           [consecutive_rate_limits |-> 0, wait |-> 0, again |-> FALSE,
            success |-> TRUE, error_code |-> 0]
      [] resp \in {"34", "21"} ->
           LET h == HandleRateLimitError(consecutive_rate_limits, ErrorCode(resp))
           IN  [consecutive_rate_limits |-> h.consecutive_rate_limits, wait |-> h.wait,
                again |-> attempt < AdaptiveMaxRetries - 1,
                success |-> FALSE, error_code |-> ErrorCode(resp)]
      [] resp = "exception" ->
           [consecutive_rate_limits |-> consecutive_rate_limits,
            wait |-> IF attempt < AdaptiveMaxRetries - 1 THEN RetryDelay ELSE 0,
            again |-> attempt < AdaptiveMaxRetries - 1,
            success |-> FALSE, error_code |-> 0]
      [] OTHER ->
           [consecutive_rate_limits |-> consecutive_rate_limits, wait |-> 0,
            again |-> FALSE, success |-> FALSE, error_code |-> ErrorCode(resp)]

\* one turn of the loop of RealDebridSmartUploader.upload_magnet
UploadMagnetAttempt(attempt, resp) ==
    CASE resp = "201" ->
           [wait |-> 0, again |-> FALSE, success |-> TRUE, error_code |-> 0]
      [] resp \in {"34", "21"} ->
           [wait |-> IF attempt < SmartMaxRetries - 1 THEN SmartBackoffDelay ELSE 0,
            again |-> attempt < SmartMaxRetries - 1,
            success |-> FALSE, error_code |-> ErrorCode(resp)]
      [] resp = "exception" ->
           [wait |-> IF attempt < SmartMaxRetries - 1 THEN SmartRetryDelay ELSE 0,
            again |-> attempt < SmartMaxRetries - 1,
            success |-> FALSE, error_code |-> 0]
      [] OTHER ->
           [wait |-> 0, again |-> FALSE, success |-> FALSE, error_code |-> ErrorCode(resp)]

\* one attempt of RealDebridUploader.upload_magnet_link, and, when the call
\* returns, the rest of the turn of the loop of main
UpAdaptiveAttempt ==
    /\ up.variant = "adaptive"
    /\ up.pc = "upload"
    /\ \E resp \in Responses, outcome \in SelectOutcomes :
        LET st == UploadMagnetLinkAttempt(up.attempt, up.consecutive_rate_limits, resp)
            u0 == [Logged(up, up.magnet_files[up.i], resp) EXCEPT
                     !.last_ok = "",
                     !.consecutive_rate_limits = st.consecutive_rate_limits]
        IN  up' = IF st.success
                  THEN NextItem(Selected([u0 EXCEPT !.active_downloads = @ + 1,
                                                    !.successful_uploads = @ + 1],
                                         outcome))
                  ELSE IF st.again
                  THEN [u0 EXCEPT !.attempt = @ + 1]
                  ELSE AdaptiveFailed(u0, st.error_code)
    /\ UNCHANGED scrVars
    /\ UNCHANGED <<pg, cl, rec, rq, bp, eh, um, mp>>

\* main of the smart orchestrator, one turn of the loop up to the upload
UpSmartItem ==
    /\ up.variant = "smart"
    /\ up.pc = "loop"
    /\ LET magnet_file == up.magnet_files[up.i]
       IN  up' = IF magnet_file.kind # "ok"
                 THEN NextItem([up EXCEPT !.failed_uploads = @ + 1, !.last_ok = ""])
                 ELSE [up EXCEPT !.pc = "upload", !.attempt = 0, !.last_ok = ""]
    /\ UNCHANGED scrVars
    /\ UNCHANGED <<pg, cl, rec, rq, bp, eh, um, mp>>

\* main that stops one failure later
MutSmartFailed(u) ==
    LET u1 == [u EXCEPT !.failed_uploads = @ + 1, !.consecutive_failures = @ + 1]
    IN  IF u1.consecutive_failures > FailureStop
        THEN [u1 EXCEPT !.pc = "done"]
        ELSE NextItem(u1)

\* what main of the smart orchestrator does with a failed upload
SmartFailed(u) ==
    LET u1 == [u EXCEPT !.failed_uploads = @ + 1, !.consecutive_failures = @ + 1]
    IN  IF u1.consecutive_failures >= FailureStop
        THEN [u1 EXCEPT !.pc = "done"]
        ELSE NextItem(u1)

\* one attempt of RealDebridSmartUploader.upload_magnet, and, when the call
\* returns, the rest of the turn of the loop of main
UpSmartAttempt ==
    /\ up.variant = "smart"
    /\ up.pc = "upload"
    /\ \E resp \in Responses, outcome \in SelectOutcomes :
        LET st == UploadMagnetAttempt(up.attempt, resp)
            u0 == [Logged(up, up.magnet_files[up.i], resp) EXCEPT !.last_ok = ""]
        IN  up' = IF st.success
                  THEN NextItem(Selected([u0 EXCEPT !.successful_uploads = @ + 1,
                                                    !.consecutive_failures = 0],
                                         outcome))
                  ELSE IF st.again
                  THEN [u0 EXCEPT !.attempt = @ + 1]
                  ELSE SmartFailed(u0)
    /\ UNCHANGED scrVars
    /\ UNCHANGED <<pg, cl, rec, rq, bp, eh, um, mp>>

\* main of the cached orchestrator: magnet_data, the files that load and
\* hold a magnet link with a hash
UpCachedLoad ==
    /\ up.variant = "cached"
    /\ up.pc = "load"
    /\ LET magnet_data == SelectSeq(up.magnet_files, LAMBDA f : f.kind = "ok")
       IN  up' = IF magnet_data = <<>>
                 THEN [up EXCEPT !.magnet_data = magnet_data, !.pc = "done"]
                 ELSE [up EXCEPT !.magnet_data = magnet_data, !.checked = 0,
                                 !.pc = "check"]
    /\ UNCHANGED scrVars
    /\ UNCHANGED <<pg, cl, rec, rq, bp, eh, um, mp>>

\* video_extensions of is_torrent_cached
VideoExtensions == {".mkv", ".mp4", ".avi", ".mov", ".wmv", ".flv", ".webm", ".m4v"}

\* str.lower() of a piece of a file name
Lower(piece) ==
    CASE piece = ".MKV" -> ".mkv" [] piece = "M" -> "m" [] OTHER -> piece

\* any(filename.endswith(ext) for ext in video_extensions) of the name in
\* lower case; <<>> is the name of a file_info that has none
IsVideoFile(filename) ==
    filename # <<>> /\ Lower(filename[Len(filename)]) \in VideoExtensions

\* what the answer lists for one hash: its variants, each a dict with its
\* files or a value that is no dict
NoVariants == <<>>
ListVariant == <<[isdict |-> FALSE, files |-> <<>>]>>
EmptyVariant == <<[isdict |-> TRUE, files |-> <<>>]>>
NonVideoInfo ==
    <<[isdict |-> TRUE, files |-> <<[filename |-> <<"m", ".nfo">>], [filename |-> <<>>]>>]>>
VideoInfo ==
    <<[isdict |-> TRUE, files |-> <<[filename |-> <<"s", ".srt">>]>>],
      [isdict |-> TRUE, files |-> <<[filename |-> <<"s", ".srt">>],
                                    [filename |-> <<"M", ".MKV">>]>>]>>
TorrentInfos == {NoVariants, ListVariant, EmptyVariant, NonVideoInfo, VideoInfo}

\* the answers to GET /torrents/instantAvailability for the hashes of a
\* batch: status 200 with a body that lists none, all, the first or all but
\* the first of them, or the first with a video and the others without; and
\* an error status, or no answer, whatever the body
CacheAnswers(batch_hashes) ==
    LET all == Elems(batch_hashes)
        first == {batch_hashes[1]}
    IN  {[status |-> "200", body |-> [h \in listed |-> info]] :
            listed \in {{}, all, first, all \ first}, info \in TorrentInfos}
        \cup {[status |-> "200",
               body |-> [h \in all |-> IF h \in first THEN VideoInfo ELSE NonVideoInfo]]}
        \cup {[status |-> st, body |-> [h \in all |-> VideoInfo]] : st \in {"503", "exception"}}

\* check_cache_availability: the body for status 200, {} otherwise
CheckCacheAvailability(answer) ==
    IF answer.status = "200" THEN answer.body ELSE EmptyDict

\* the test that takes every hash the answer lists for cached
MutIsTorrentCached(torrent_hash, cache_data) == torrent_hash \in DOMAIN cache_data

\* is_torrent_cached: len(cached_variants) > 0
IsTorrentCached(torrent_hash, cache_data) ==
    IF torrent_hash \notin DOMAIN cache_data THEN FALSE
    ELSE LET torrent_info == cache_data[torrent_hash]
             cached_variants ==
                 SelectSeq(torrent_info,
                           LAMBDA variant_info :
                               /\ variant_info.isdict
                               /\ variant_info.files # <<>>
                               /\ \E k \in DOMAIN variant_info.files :
                                      IsVideoFile(variant_info.files[k].filename))
         IN  Len(cached_variants) > 0

\* one batch of the cache check: check_cache_availability, then
\* is_torrent_cached for every file of the batch
UpCachedCheck ==
    /\ up.variant = "cached"
    /\ up.pc = "check"
    /\ LET magnet_data == up.magnet_data
           first == up.checked + 1
           last == IF up.checked + CacheCheckBatchSize < Len(magnet_data)
                   THEN up.checked + CacheCheckBatchSize ELSE Len(magnet_data)
           batch == SubSeq(magnet_data, first, last)
           batch_hashes == [k \in DOMAIN batch |-> batch[k].id]
       IN  \E answer \in CacheAnswers(batch_hashes) :
            LET cache_data == CheckCacheAvailability(answer)
                found == SelectSeq(batch, LAMBDA item : IsTorrentCached(item.id, cache_data))
                cached_torrents == up.cached_torrents \o found
                u1 == [up EXCEPT
                         !.cached_torrents = cached_torrents, !.checked = last,
                         !.sent = @ \cup {"instantAvailability"},
                         !.covered = [h \in DOMAIN @ \cup Elems(batch_hashes) |->
                                         IF h \in Elems(batch_hashes) THEN answer ELSE @[h]]]
            IN  up' = IF last < Len(magnet_data)
                      THEN u1
                      ELSE IF cached_torrents = <<>>
                      THEN [u1 EXCEPT !.pc = "done"]
                      ELSE [u1 EXCEPT !.i = 1, !.pc = "upload"]
    /\ UNCHANGED scrVars
    /\ UNCHANGED <<pg, cl, rec, rq, bp, eh, um, mp>>

\* one turn of the upload loop of the cached orchestrator:
\* upload_cached_magnet, which tries once
UpCachedUpload ==
    /\ up.variant = "cached"
    /\ up.pc = "upload"
    /\ \E resp \in Responses, outcome \in SelectOutcomes :
        LET u0 == [Logged(up, up.cached_torrents[up.i], resp) EXCEPT !.last_ok = ""]
            u1 == IF resp = "201"
                  THEN Selected([u0 EXCEPT !.successful_uploads = @ + 1], outcome)
                  ELSE [u0 EXCEPT !.failed_uploads = @ + 1]
        IN  up' = [u1 EXCEPT !.i = up.i + 1,
                             !.pc = IF up.i + 1 > Len(up.cached_torrents)
                                    THEN "done" ELSE "upload"]
    /\ UNCHANGED scrVars
    /\ UNCHANGED <<pg, cl, rec, rq, bp, eh, um, mp>>

InitUpload == ScrIdle /\ pg = Idle /\ cl = Idle /\ UpInit /\ OthersIdle

NextUpload ==
    \/ UpTestConnection
    \/ UpFindFiles
    \/ UpAdaptiveItem
    \/ UpAdaptiveAttempt
    \/ UpSmartItem
    \/ UpSmartAttempt
    \/ UpCachedLoad
    \/ UpCachedCheck
    \/ UpCachedUpload

SpecUpload == InitUpload /\ [][NextUpload]_vars

\* C7: in the adaptive orchestrator, once three rate-limit or quota errors
\* have followed one another with no successful upload in between, no
\* further descriptor is submitted in that run: a later POST can only be
\* for the descriptor that drew the third error.
C7_StopsAfterThreeRateLimits ==
    [][(up.variant = "adaptive" /\ up.tripped /\ up'.log # up.log)
            => up'.log[Len(up'.log)] = up.log[Len(up.log)]]_vars

\* C8 as the claim states it: the descriptors are submitted in strictly
\* decreasing order of modification time, each one's attempts together.
C8_AsStated ==
    \A j, k \in DOMAIN up.log :
        j < k => /\ up.log[j].id # up.log[k].id
                 /\ up.log[j].mtime > up.log[k].mtime

\* C8: in every orchestrator the descriptors are submitted in an order in
\* which the modification time never increases, descriptors of equal
\* modification time in the order the directory walk found them, and all the
\* attempts of one descriptor are made before any attempt of the next.
C8_NewestFirst ==
    \A j, k \in DOMAIN up.log :
        j < k => /\ up.log[j].id # up.log[k].id
                 /\ up.log[j].mtime >= up.log[k].mtime
                 /\ up.log[j].mtime = up.log[k].mtime => up.log[j].id < up.log[k].id

C8_Witness ==
    /\ up.pc = "done"
    /\ up.retried
    /\ Len(up.log) = 3
    /\ up.log[1].mtime = up.log[2].mtime
    /\ up.log[2].mtime > up.log[3].mtime
    /\ up.log[3].id < up.log[1].id

\* C24: in each of the three orchestrators, when the probe of the account is
\* answered by another status than 200, or not at all, the process ends
\* with exit status 1 and has sent no request to add a magnet, to check the
\* cache, to select files or to list the torrents.
C24_ProbeFailureExits ==
    up.probe \in {"401", "exception"} =>
        /\ up.pc = "exit1"
        /\ up.sent = {}
        /\ up.log = <<>> /\ up.checked = 0 /\ up.magnet_files = <<>>

\* the probe of the cached orchestrator got no answer, over a directory
\* that holds descriptors
C24_Witness ==
    /\ up.variant = "cached" /\ up.probe = "exception" /\ up.pc = "exit1"
    /\ up.dir # <<>>

\* C27: in each of the three orchestrators the descriptors for which a
\* magnet is posted in a run are no more than max_uploads_per_run, however
\* many .magnet files the directory holds.
C27_UploadsWithinLimit ==
    /\ Len(up.log) <= up.max_uploads_per_run
    /\ Len(up.magnet_files) <= up.max_uploads_per_run
    /\ Len(up.cached_torrents) <= up.max_uploads_per_run
    /\ \A j, k \in DOMAIN up.log : j # k => up.log[j].id # up.log[k].id

\* the smart orchestrator found more files than the limit and posted the
\* magnets of as many as the limit
C27_Witness ==
    /\ up.variant = "smart" /\ up.pc = "done"
    /\ Len(up.dir) > up.max_uploads_per_run
    /\ Len(up.log) = up.max_uploads_per_run /\ up.max_uploads_per_run > 0

\* C31: when a run of the adaptive orchestrator ends, successful_uploads +
\* failed_uploads + skipped_uploads is the number of files selected for the
\* run.
C31_EveryDescriptorCounted ==
    (up.variant = "adaptive" /\ up.pc = "done") =>
        up.successful_uploads + up.failed_uploads + up.skipped_uploads
            = Len(up.magnet_files)

(***************************************************************************)
(* Runs of an orchestrator that follow one another over one directory      *)
(***************************************************************************)
\* the directory: two descriptors that load, the first the newer
RunDir ==
    <<[id |-> 1, mtime |-> 2, kind |-> "ok"], [id |-> 2, mtime |-> 1, kind |-> "ok"]>>

\* the files the early stop of the adaptive orchestrator counted as skipped:
\* the files after the one the loop was at
SkippedFiles(u) ==
    IF u.skipped_uploads > 0
    THEN {u.magnet_files[k].id : k \in (u.i + 1)..Len(u.magnet_files)}
    ELSE {}

\* the schedule starts main again as a new process: nothing of the run
\* before is kept but the directory, which no orchestrator writes to
UpStartRun ==
    /\ up.pc \in {"done", "exit1"}
    /\ up.run < MaxUploadRuns
    /\ up' = [UpStart(up.variant, up.dir, up.max_uploads_per_run) EXCEPT
                !.run = up.run + 1,
                !.prev = [skipped |-> SkippedFiles(up), uploaded |-> up.uploaded]]
    /\ UNCHANGED scrVars
    /\ UNCHANGED <<pg, cl, rec, rq, bp, eh, um, mp>>

InitRuns ==
    /\ ScrIdle /\ pg = Idle /\ cl = Idle /\ OthersIdle
    /\ up \in {UpStart(v, RunDir, 50) : v \in Variants}

NextRuns == NextUpload \/ UpStartRun

SpecRuns == InitRuns /\ [][NextRuns]_vars

\* C34: the files a run of the adaptive orchestrator counted as skipped at
\* its early stop have each had their magnet posted by the time the next
\* run over the same directory, once connected, ends.
C34_SkippedAttemptedNextRun ==
    (up.variant = "adaptive" /\ up.run > 1 /\ up.pc = "done") =>
        \A id \in up.prev.skipped : \E k \in DOMAIN up.log : up.log[k].id = id

\* C40: no run posts the magnet of a descriptor that the run before
\* uploaded with success from the same directory.
C40_NoResubmission ==
    \A k \in DOMAIN up.log : up.log[k].id \notin up.prev.uploaded

(***************************************************************************)
(* The smart orchestrator over a directory with more descriptors than the  *)
(* threshold on consecutive failures                                       *)
(***************************************************************************)
\* two descriptors more than the threshold
StopFiles == FailureStop + 2

\* the directories: descriptors of one modification time, the third one
\* readable, without a magnet link, or unreadable
StopDirs ==
    {[k \in 1..StopFiles |-> [id |-> k, mtime |-> 1,
                              kind |-> IF k = 3 THEN kd ELSE "ok"]] : kd \in Kinds}

InitStop ==
    /\ ScrIdle /\ pg = Idle /\ cl = Idle /\ OthersIdle
    /\ up \in {UpStart("smart", d, 50) : d \in StopDirs}

NextStop == UpTestConnection \/ UpFindFiles \/ UpSmartItem \/ UpSmartAttempt

SpecStop == InitStop /\ [][NextStop]_vars

\* the number of files of the list whose turn of the loop is over
EndedCount(u) ==
    IF u.pc = "done" THEN Min(u.i, Len(u.magnet_files))
    ELSE IF u.pc \in {"loop", "upload"} THEN u.i - 1 ELSE 0

\* the file at position k ended without a successful upload
FailedAt(u, k) == k <= EndedCount(u) /\ u.magnet_files[k].id \notin u.uploaded

\* the upload call for the file at position k returned a failure
UploadFailedAt(u, k) == FailedAt(u, k) /\ u.magnet_files[k].kind = "ok"

\* a magnet was posted for a file behind position j
PostedAfter(u, j) ==
    \E m \in (j + 1)..Len(u.magnet_files), n \in DOMAIN u.log : u.log[n] = u.magnet_files[m]

\* C35 as stated: once 5 files in a row have ended as failed, no magnet is
\* posted for a later file.
C35_AsStated ==
    up.variant = "smart" =>
        \A j \in FailureStop..Len(up.magnet_files) :
            (\A k \in (j - FailureStop + 1)..j : FailedAt(up, k)) => ~PostedAfter(up, j)

\* C35: once 5 upload calls have returned a failure with no successful
\* upload between them, no magnet is posted for a later file; a file that
\* cannot be loaded or has no magnet link is counted as failed but does not
\* count among the 5.
C35_StopAfterFiveUploadFailures ==
    up.variant = "smart" =>
        \A j \in 1..Len(up.magnet_files) : \A a \in 1..j :
            (/\ \A k \in a..j : FailedAt(up, k)
             /\ Cardinality({k \in a..j : UploadFailedAt(up, k)}) >= FailureStop)
                => ~PostedAfter(up, j)

\* the third file could not be loaded, the uploads of the two before it and
\* of the three behind it failed, and the run stopped before the seventh
C35_Witness ==
    /\ up.variant = "smart" /\ up.pc = "done" /\ up.i = StopFiles - 1
    /\ up.magnet_files[3].kind = "unreadable"
    /\ up.uploaded = {} /\ up.consecutive_failures = FailureStop
    /\ Len(up.log) = FailureStop /\ ~PostedAfter(up, StopFiles - 1)

(***************************************************************************)
(* The adaptive orchestrator over a directory with more descriptors than   *)
(* the ceiling on active downloads                                         *)
(***************************************************************************)
\* two descriptors more than max_concurrent_downloads
CeilingFiles == MaxConcurrentDownloads + 2

\* the directory: descriptors that load, in the order of the walk
CeilingDir == [k \in 1..CeilingFiles |-> [id |-> k, mtime |-> 1, kind |-> "ok"]]

InitCeiling ==
    /\ ScrIdle /\ pg = Idle /\ cl = Idle /\ OthersIdle
    /\ up = UpStart("adaptive", CeilingDir, 50)

NextCeiling ==
    \/ UpTestConnection
    \/ UpFindFiles
    \/ UpAdaptiveItem
    \/ UpAdaptiveAttempt

SpecCeiling == InitCeiling /\ [][NextCeiling]_vars

\* C28: the adaptive orchestrator posts no magnet while its count of active
\* downloads is at or above max_concurrent_downloads.
C28_NoSubmitAtCeiling ==
    (up.variant = "adaptive" /\ up.pc = "upload") =>
        up.active_downloads < MaxConcurrentDownloads

\* C29: when the operation an orchestrator made last was a successful upload,
\* file selection or poll of the active downloads, consecutive_rate_limits
\* and consecutive_failures are 0.
C29_CountersZeroAfterSuccess ==
    up.last_ok # "" =>
        /\ up.consecutive_rate_limits = 0
        /\ up.consecutive_failures = 0

(***************************************************************************)
(* The cached orchestrator over a directory with more descriptors than one *)
(* batch of the cache check holds                                          *)
(***************************************************************************)
\* one descriptor more than cache_check_batch_size
BatchFiles == CacheCheckBatchSize + 1

\* the directory: descriptors that load, each with a hash of its own
BatchDir == [k \in 1..BatchFiles |-> [id |-> k, mtime |-> 1, kind |-> "ok"]]

InitBatch ==
    /\ ScrIdle /\ pg = Idle /\ cl = Idle /\ OthersIdle
    /\ up = UpStart("cached", BatchDir, 50)

NextBatch ==
    \/ UpTestConnection
    \/ UpFindFiles
    \/ UpCachedLoad
    \/ UpCachedCheck
    \/ UpCachedUpload

SpecBatch == InitBatch /\ [][NextBatch]_vars

\* an answer lists, for a hash, a variant that holds a file whose name ends
\* in a video extension, in either case
ListsVideoVariant(answer, h) ==
    /\ h \in DOMAIN answer.body
    /\ \E v \in DOMAIN answer.body[h] :
          /\ answer.body[h][v].isdict
          /\ \E k \in DOMAIN answer.body[h][v].files :
                LET filename == answer.body[h][v].files[k].filename
                IN  /\ filename # <<>>
                    /\ filename[Len(filename)] \in
                          {".mkv", ".mp4", ".avi", ".mov", ".wmv", ".flv", ".webm", ".m4v",
                           ".MKV"}

\* C30: the cached orchestrator posts the magnet of a descriptor only if the
\* request for the batch that held its hash was answered with status 200
\* and the answer lists for the hash a variant with a video file.
C30_OnlyCachedSubmitted ==
    up.variant = "cached" =>
        \A k \in DOMAIN up.log :
            LET h == up.log[k].id
            IN  /\ h \in DOMAIN up.covered
                /\ up.covered[h].status = "200"
                /\ ListsVideoVariant(up.covered[h], h)

\* the check of the first batch was refused, with a body that lists videos
\* for every hash; the second batch was answered with a video for its one
\* hash, and that descriptor alone was submitted
C30_Witness ==
    /\ up.variant = "cached" /\ up.pc = "done"
    /\ Len(up.magnet_data) = CacheCheckBatchSize + 1
    /\ up.covered[1].status = "503" /\ ListsVideoVariant(up.covered[1], 1)
    /\ Len(up.log) = 1 /\ up.log[1].id = CacheCheckBatchSize + 1

(***************************************************************************)
(* One upload call on its own: RealDebridUploader.upload_magnet_link, with *)
(* the counter of rate limits as earlier calls left it, and                *)
(* RealDebridSmartUploader.upload_magnet                                   *)
(***************************************************************************)
UmInit ==
    um \in {[variant |-> v, consecutive_rate_limits |-> c, attempt |-> 0, posts |-> <<>>,
             waits |-> <<>>, pc |-> "calling",
             result |-> [success |-> FALSE, error_code |-> 0]] :
               v \in {"adaptive", "smart"}, c \in 0..MaxConsecutive}

\* one turn of the loop of RealDebridUploader.upload_magnet_link
UmAdaptiveAttempt ==
    /\ um.variant = "adaptive"
    /\ um.pc = "calling"
    /\ um.attempt < AdaptiveMaxRetries
    /\ \E resp \in Responses :
        LET st == UploadMagnetLinkAttempt(um.attempt, um.consecutive_rate_limits, resp)
        IN  um' = [um EXCEPT
                     !.posts = Append(@, resp),
                     !.waits = Append(@, [seconds |-> st.wait,
                                          before |-> um.consecutive_rate_limits,
                                          counter |-> st.consecutive_rate_limits]),
                     !.consecutive_rate_limits = st.consecutive_rate_limits,
                     !.attempt = IF st.again THEN @ + 1 ELSE @,
                     !.pc = IF st.again THEN "calling" ELSE "returned",
                     !.result = [success |-> st.success, error_code |-> st.error_code]]
    /\ UNCHANGED scrVars
    /\ UNCHANGED <<pg, cl, up, rec, rq, bp, eh, mp>>

\* one turn of the loop of RealDebridSmartUploader.upload_magnet
UmSmartAttempt ==
    /\ um.variant = "smart"
    /\ um.pc = "calling"
    /\ um.attempt < SmartMaxRetries
    /\ \E resp \in Responses :
        LET st == UploadMagnetAttempt(um.attempt, resp)
        IN  um' = [um EXCEPT
                     !.posts = Append(@, resp),
                     !.waits = Append(@, [seconds |-> st.wait,
                                          before |-> um.consecutive_rate_limits,
                                          counter |-> um.consecutive_rate_limits]),
                     !.attempt = IF st.again THEN @ + 1 ELSE @,
                     !.pc = IF st.again THEN "calling" ELSE "returned",
                     !.result = [success |-> st.success, error_code |-> st.error_code]]
    /\ UNCHANGED scrVars
    /\ UNCHANGED <<pg, cl, up, rec, rq, bp, eh, mp>>

InitCall ==
    /\ ScrIdle /\ pg = Idle /\ cl = Idle /\ up = Idle
    /\ rec = Idle /\ rq = Idle /\ bp = Idle /\ eh = Idle /\ UmInit /\ mp = Idle

NextCall == UmAdaptiveAttempt \/ UmSmartAttempt

SpecCall == InitCall /\ [][NextCall]_vars

\* C25: one upload call posts the magnet at most 3 times in the adaptive
\* orchestrator and at most 2 times in the smart one; an answer with error
\* code 34 or 21 to a post that is not the last allowed is followed by a
\* wait and by another post, and to the last allowed by the return of a
\* failure that carries that code.
C25_AttemptCap ==
    LET n == Len(um.posts)
        cap == IF um.variant = "adaptive" THEN 3 ELSE 2
    IN  /\ n <= cap
        /\ \A k \in 1..n :
              (k < cap /\ um.posts[k] \in {"34", "21"}) =>
                  /\ um.waits[k].seconds > 0
                  /\ k < n \/ um.pc = "calling"
        /\ (n = cap /\ um.posts[n] \in {"34", "21"}) =>
              /\ um.pc = "returned"
              /\ ~um.result.success
              /\ um.result.error_code = (IF um.posts[n] = "34" THEN 34 ELSE 21)
        /\ um.pc = "returned" => (um.result.success <=> um.posts[n] = "201")

\* the adaptive call got 34, then 21, then 34, and returned the failure
C25_Witness ==
    /\ um.variant = "adaptive" /\ um.pc = "returned"
    /\ um.posts = <<"34", "21", "34">>
    /\ ~um.result.success /\ um.result.error_code = 34

\* the seconds _handle_rate_limit_error sleeps after the errors of code 34
WaitsAfter34 ==
    {k \in DOMAIN um.posts : um.variant = "adaptive" /\ um.posts[k] = "34"}

\* C26 as stated: the wait after a rate-limit error is 60 * 2^min(c, 3)
\* seconds, c being the value of consecutive_rate_limits, which has counted
\* the error when the wait is computed.
C26_AsStated ==
    \A k \in WaitsAfter34 :
        um.waits[k].seconds = 60 * (2 ^ (IF um.waits[k].counter < 3
                                         THEN um.waits[k].counter ELSE 3))

\* C26: in the adaptive orchestrator the wait after an error of code 34 is
\* 60 * 2^min(c - 1, 3) seconds, c being consecutive_rate_limits once it has
\* counted the error: 60 seconds for the first error counted, twice the wait
\* before it when the error before it was of code 34 too, and never more than
\* 480; the wait after an error of code 21 is 120 seconds whatever c is.
C26_BackoffWait ==
    /\ \A k \in WaitsAfter34 :
          LET c == um.waits[k].counter
              e == IF c - 1 < 3 THEN c - 1 ELSE 3
              double == 2 * um.waits[k - 1].seconds
          IN  /\ c = um.waits[k].before + 1
              /\ um.waits[k].seconds = 60 * (2 ^ e)
              /\ um.waits[k].seconds <= 480
              /\ c = 1 => um.waits[k].seconds = 60
              /\ (k - 1) \in WaitsAfter34 =>
                    um.waits[k].seconds = (IF double < 480 THEN double ELSE 480)
    /\ \A k \in DOMAIN um.posts :
          (um.variant = "adaptive" /\ um.posts[k] = "21") => um.waits[k].seconds = 120

\* three errors of code 34 in a call that started with the counter at 1:
\* waits of 120, 240 and 480 seconds
C26_Witness ==
    /\ um.variant = "adaptive" /\ um.pc = "returned"
    /\ um.posts = <<"34", "34", "34">>
    /\ um.waits[1].before = 1
    /\ um.waits[1].seconds = 120 /\ um.waits[2].seconds = 240 /\ um.waits[3].seconds = 480

(***************************************************************************)
(* PersistentCache record on its own: sequences of _cache_movie calls on a *)
(* clock that never goes back                                              *)
(***************************************************************************)
\* the release ids and the qualities of the calls
RecIds == {1, 2}
RecQualities == {"720p", "1080p"}

\* the cache before the first call: empty, or with an entry a load returned
RecInit ==
    rec \in {[cache |-> c, now |-> FirstDay, before |-> c, calls |-> <<>>, created |-> {}] :
               c \in {EmptyDict,
                      DictSet(EmptyDict, "2", EntryOf(2, <<"1080p">>, FirstDay - 1))}}

\* one call of Scraper._cache_movie; the clock may move on between its reads
RecCacheMovie ==
    /\ Len(rec.calls) < MaxCalls
    /\ \E i \in RecIds, quality \in RecQualities, d1 \in {0, 1}, d2 \in {0, 1} :
        LET movie_id == ToString(i)
            t1 == rec.now
            t2 == t1 + d1
            t3 == t2 + d2
        IN  rec' = [cache |-> CacheMovieAt(rec.cache, movie_id, Sanitize(Catalog[i].title_long),
                                           Catalog[i].year, quality, t1, t2, t3),
                    now |-> t3,
                    before |-> rec.cache,
                    calls |-> Append(rec.calls, <<movie_id, quality>>),
                    created |-> IF movie_id \in DOMAIN rec.cache THEN rec.created
                                ELSE rec.created \cup {movie_id}]
    /\ UNCHANGED scrVars
    /\ UNCHANGED <<pg, cl, up, rq, bp, eh, um, mp>>

InitRecord == ScrIdle /\ pg = Idle /\ cl = Idle /\ up = Idle /\ RecInit /\ rq = Idle /\ bp = Idle /\ eh = Idle /\ um = Idle /\ mp = Idle

NextRecord == RecCacheMovie

SpecRecord == InitRecord /\ [][NextRecord]_vars

\* C11: a record call that repeats the (id, quality) of the call before it
\* leaves the entry's quality list as long as that call left it.
C11_RecordIdempotent ==
    LET n == Len(rec.calls)
    IN  (n >= 2 /\ rec.calls[n] = rec.calls[n - 1]) =>
            LET movie_id == rec.calls[n][1]
            IN  Len(rec.cache[movie_id]["qualities"]) = Len(rec.before[movie_id]["qualities"])

\* the same pair was recorded twice in a row, the second time later
C11_Witness ==
    /\ Len(rec.calls) = 2 /\ rec.calls[1] = rec.calls[2]
    /\ rec.cache # rec.before
    /\ Len(rec.cache[rec.calls[2][1]]["qualities"]) = 1

\* C12: on a clock that never goes back, every entry that record created has
\* last_seen >= first_seen, compared as the timestamps are written.
C12_LastSeenNotBeforeFirstSeen ==
    \A movie_id \in rec.created :
        ~StrLess(rec.cache[movie_id]["last_seen"], rec.cache[movie_id]["first_seen"])

\* an entry was created and touched again later
C12_Witness ==
    \E movie_id \in rec.created :
        /\ StrLess(rec.cache[movie_id]["first_seen"], rec.cache[movie_id]["last_seen"])
        /\ Len(rec.cache[movie_id]["qualities"]) = 2

\* C13: a record call removes no quality from any entry, leaves first_seen of
\* every entry that was there as it was, and moves no last_seen backwards.
C13_EntriesOnlyGrow ==
    [][\A movie_id \in DOMAIN rec.cache :
          /\ movie_id \in DOMAIN rec'.cache
          /\ Elems(rec.cache[movie_id]["qualities"])
                \subseteq Elems(rec'.cache[movie_id]["qualities"])
          /\ rec'.cache[movie_id]["first_seen"] = rec.cache[movie_id]["first_seen"]
          /\ ~StrLess(rec'.cache[movie_id]["last_seen"], rec.cache[movie_id]["last_seen"])]_vars

\* three calls touched one entry: two qualities, first_seen of the first call,
\* last_seen later
C13_Witness ==
    /\ Len(rec.calls) = 3
    /\ rec.created = {"1"}
    /\ Elems(rec.cache["1"]["qualities"]) = RecQualities
    /\ rec.cache["1"]["first_seen"] = IsoFormat(FirstDay)
    /\ IsoDay(rec.cache["1"]["last_seen"]) > FirstDay + 2

(***************************************************************************)
(* The path derivation on its own: the title is stripped as                *)
(* __filter_torrents strips it and __build_path is called twice, by two    *)
(* scrapers that may differ in their settings, for two genres and ratings  *)
(***************************************************************************)
\* title_long of the releases
BpTitles ==
    { <<"A", ":", " ", "b">>, <<"A", " ", "b">>, <<"O", "?">>,
      <<"'", "x", "/", "y", "\\", "*", "<", "z", ">", "|">> }

\* the settings __build_path reads, of a scraper that writes descriptors
BpArgs ==
    [quality : {"all"}, categorize : {"rating", "genre"}, year_limit : {0},
     csv_only : {FALSE}, auto_continue : {FALSE}, imdb_id : BOOLEAN, page : {1},
     output : {"out", ""}]

BpInit ==
    bp \in {[title_long |-> tl, year |-> y, quality |-> q, imdb_id |-> "tt1",
             a |-> a, b |-> b, genre_a |-> ga, genre_b |-> gb,
             movie_name |-> <<>>, path_a |-> NoPath, path_b |-> NoPath, pc |-> "called"] :
               tl \in BpTitles, y \in {1990, 2020}, q \in {"720p", "1080p"},
               a \in BpArgs, b \in BpArgs, ga \in {"Action", "None"}, gb \in {"Action", "Drama"}}

\* movie_name of __filter_torrents, then Scraper.__build_path by both scrapers
BpBuildPath ==
    /\ bp.pc = "called"
    /\ LET movie_name == Sanitize(bp.title_long)
       IN  bp' = [bp EXCEPT
                    !.movie_name = movie_name,
                    !.path_a = BuildPath(bp.a, movie_name, 5, bp.quality, bp.genre_a,
                                         bp.imdb_id, ToString(bp.year)),
                    !.path_b = BuildPath(bp.b, movie_name, 9, bp.quality, bp.genre_b,
                                         bp.imdb_id, ToString(bp.year)),
                    !.pc = "built"]
    /\ UNCHANGED scrVars
    /\ UNCHANGED <<pg, cl, up, rec, rq, eh, um, mp>>

InitPath == ScrIdle /\ pg = Idle /\ cl = Idle /\ up = Idle /\ rec = Idle /\ rq = Idle /\ BpInit /\ eh = Idle /\ um = Idle /\ mp = Idle

NextPath == BpBuildPath

SpecPath == InitPath /\ [][NextPath]_vars

\* C14: two derivations from the same display name, year, quality, external
\* id, id-append flag and output directory give the same path, whatever the
\* genre, the rating and the categorization are; and the display name in the
\* path holds none of ' / \ : * ? < > |.
C14_PathDeterministic ==
    bp.pc = "built" =>
        /\ (bp.a.imdb_id = bp.b.imdb_id /\ Directory(bp.a) = Directory(bp.b))
              => bp.path_a = bp.path_b
        /\ \A i \in DOMAIN bp.movie_name :
              bp.movie_name[i] \notin {"'", "/", "\\", ":", "*", "?", "<", ">", "|"}
        /\ \E pre, post \in {bp.path_a} \cup
                  {SubSeq(bp.path_a, j, k) : j, k \in 1..Len(bp.path_a)} \cup {<<>>} :
              bp.path_a = pre \o bp.movie_name \o <<" (", ToString(bp.year), ")", "/">>
                              \o bp.movie_name \o post

\* two scrapers that categorize differently derived the path of a title with
\* a colon, for different genres, and got the same path
C14_Witness ==
    /\ bp.pc = "built"
    /\ bp.title_long = <<"A", ":", " ", "b">>
    /\ bp.a.categorize # bp.b.categorize /\ bp.genre_a # bp.genre_b
    /\ bp.a.output = "out" /\ bp.b.output = "out" /\ bp.a.imdb_id /\ bp.b.imdb_id
    /\ bp.path_a = bp.path_b
    /\ bp.path_a = <<"./", "out", "/", "A", " ", "b", " (", "2020", ")", "/",
                     "A", " ", "b", ".", "720p", "-", "tt1">>

(***************************************************************************)
(* One metadata HTTP call on its own: the caller draws the User-Agent      *)
(* header, then _make_request_with_retry sends the request                 *)
(***************************************************************************)
\* the callers: __get_api_data and the page loop of __initialize_download
Callers == {"count", "page"}

\* the strings user_agent.random may return
UserAgents == {"ua1", "ua2", "ua3"}

\* what requests.get and raise_for_status make of an attempt: a response, a
\* Timeout, a ConnectionError, or another RequestException (an HTTP error
\* status among them)
Answers == {"ok", "timeout", "connection", "http_error"}

\* the wait that doubles once more
MutWaitTime(attempt, base) == (2 ^ (attempt + 1)) * base

\* wait_time = (2 ** attempt) * base
WaitTime(attempt, base) == (2 ^ attempt) * base

RqInit ==
    rq \in {[caller |-> c, headers |-> "", draws |-> 0, attempt |-> 0,
             sent |-> <<>>, waits |-> <<>>, pc |-> "start"] : c \in Callers}

\* the caller builds the headers: headers = {'User-Agent': user_agent.random}
RqMakeHeaders ==
    /\ rq.pc = "start"
    /\ \E ua \in UserAgents :
        rq' = [rq EXCEPT !.headers = ua, !.draws = @ + 1, !.pc = "calling"]
    /\ UNCHANGED scrVars
    /\ UNCHANGED <<pg, cl, up, rec, bp, eh, um, mp>>

\* one turn of the loop of Scraper._make_request_with_retry: the request with
\* the headers it was given, and the wait before the next turn
RqAttempt ==
    /\ rq.pc = "calling"
    /\ rq.attempt < max_retries
    /\ \E answer \in Answers :
        LET r1 == [rq EXCEPT !.sent = Append(@, [ua |-> rq.headers, draw |-> rq.draws,
                                                 answer |-> answer])]
            base == IF answer = "timeout" THEN TimeoutBase ELSE ConnectionBase
        IN  rq' = CASE answer = "ok" -> [r1 EXCEPT !.pc = "returned"]
                    [] answer \in {"timeout", "connection"} ->
                         IF rq.attempt < max_retries - 1
                         THEN [r1 EXCEPT !.waits = Append(@, WaitTime(rq.attempt, base)),
                                         !.attempt = @ + 1]
                         ELSE [r1 EXCEPT !.pc = "raised"]
                    [] OTHER -> [r1 EXCEPT !.pc = "raised"]
    /\ UNCHANGED scrVars
    /\ UNCHANGED <<pg, cl, up, rec, bp, eh, um, mp>>

InitRetry == ScrIdle /\ pg = Idle /\ cl = Idle /\ up = Idle /\ rec = Idle /\ RqInit /\ bp = Idle /\ eh = Idle /\ um = Idle /\ mp = Idle

NextRetry == RqMakeHeaders \/ RqAttempt

SpecRetry == InitRetry /\ [][NextRetry]_vars

C17_FreshIdentityPerAttempt ==
    \A k \in 2..Len(rq.sent) : rq.sent[k].draw # rq.sent[k - 1].draw

(***************************************************************************)
(* The persist calls of a run on their own: __save_magnet_info called for  *)
(* paths that hold a descriptor and for paths that hold none, in any       *)
(* order, with any answer at the prompt                                    *)
(***************************************************************************)
\* the settings of a scraper that writes descriptors, unattended or not
EhArgs ==
    [quality : {"all"}, categorize : {"genre"}, year_limit : {0}, csv_only : {FALSE},
     auto_continue : BOOLEAN, imdb_id : {FALSE}, page : {1}, output : {"out"}]

\* the persist call that has not been made
NoCall ==
    [counter |-> 0, skip |-> FALSE, answer |-> "", ret |-> "", exit |-> FALSE,
     fired |-> FALSE, blocked |-> FALSE, existed |-> FALSE]

\* the scraper as __initialize_download leaves it, over a directory that
\* holds the 720p descriptor of release 1
EhInit ==
    eh \in {[a |-> a,
             s |-> [files |-> EarlierFile(a, 1, 1, FirstDay - 40), cache |-> EmptyDict,
                    ids |-> {}, counter |-> 0, skip |-> FALSE],
             calls |-> 0, pc |-> "running", last |-> NoCall, before |-> NoCall,
             continued |-> 0, refired |-> FALSE] : a \in EhArgs}

\* one call of Scraper.__save_magnet_info, for release 1, whose descriptor
\* is there, or for a release that has none yet
EhPersist ==
    /\ eh.pc = "running"
    /\ eh.calls < MaxPersist
    /\ \E existing \in BOOLEAN, exit_answer \in {"y", "n", "?"} :
        LET n == Cardinality(DOMAIN eh.s.files)
            movie == Catalog[1]
            movie_name == IF existing THEN Sanitize(movie.title_long)
                          ELSE <<"N", ToString(n)>>
            movie_id == IF existing THEN ToString(movie.id) ELSE ToString(10 + n)
            path == BuildPath(eh.a, movie_name, 0, "720p", "Drama", movie.imdb_code,
                              ToString(movie.year))
            r == SaveMagnetInfo(eh.a, eh.s, "H", path, movie_name, movie_id, "720p",
                                movie.imdb_code, movie.year, FirstDay, exit_answer)
        IN  eh' = [eh EXCEPT
                     !.s = IF r.exit THEN @
                           ELSE [files |-> r.files, cache |-> r.cache, ids |-> r.ids,
                                 counter |-> r.counter, skip |-> r.skip],
                     !.calls = @ + 1,
                     !.pc = IF r.exit THEN "exit0" ELSE "running",
                     !.before = eh.last,
                     !.continued = IF r.fired /\ (eh.a.auto_continue \/ exit_answer = "y")
                                   THEN @ + 1 ELSE @,
                     !.refired = @ \/ (r.fired /\ eh.continued >= 1),
                     !.last = [counter |-> eh.s.counter, skip |-> eh.s.skip,
                               answer |-> IF r.blocked THEN exit_answer ELSE "",
                               ret |-> r.ret, exit |-> r.exit, fired |-> r.fired,
                               blocked |-> r.blocked,
                               existed |-> MagnetFilePath(path) \in DOMAIN eh.s.files]]
    /\ UNCHANGED scrVars
    /\ UNCHANGED <<pg, cl, up, rec, rq, bp, um, mp>>

InitHatch ==
    /\ ScrIdle /\ pg = Idle /\ cl = Idle /\ up = Idle
    /\ rec = Idle /\ rq = Idle /\ bp = Idle /\ EhInit /\ um = Idle /\ mp = Idle

NextHatch == EhPersist

SpecHatch == InitHatch /\ [][NextHatch]_vars

C39_AsStated ==
    (eh.calls >= 2 /\ eh.before.fired /\ eh.before.answer = "?") => eh.last.fired

\* C39: in one run the prompt is reached at most once with the run going on
\* after a reset (unattended, or the answer "y"), however high the counter
\* climbs afterwards; after an unrecognized answer the call goes on with the
\* counter as it was, and the next call reaches the prompt again if the call
\* found its descriptor, and does not if the call wrote one.
C39_HatchFiresOnce ==
    /\ eh.continued <= 1 /\ ~eh.refired
    /\ (eh.calls >= 1 /\ eh.last.fired /\ eh.last.answer = "?") =>
          /\ ~eh.last.exit /\ eh.pc = "running" /\ ~eh.s.skip
          /\ eh.s.counter = IF eh.last.existed THEN eh.last.counter + 1 ELSE 0
    /\ (eh.calls >= 2 /\ eh.before.fired /\ eh.before.answer = "?") =>
          (eh.last.fired <=> eh.before.existed)

\* the prompt was answered "y" at the twelfth call, eleven more descriptors
\* in a row were there, and the call that starts with the counter at 11
\* does not reach the prompt
C39_Witness ==
    /\ ~eh.a.auto_continue /\ eh.continued = 1
    /\ eh.calls = 24 /\ eh.last.counter > ExistingFileLimit + 1 /\ ~eh.last.fired
    /\ eh.last.existed /\ eh.s.counter = eh.last.counter + 1

(***************************************************************************)
(* The worker pool: __filter_torrents run by the threads of the            *)
(* ThreadPoolExecutor for the movies of one page, and the main thread that *)
(* goes on to the end of download().  A step of a worker is a statement    *)
(* that reads or writes what the workers share; the threads are switched   *)
(* between any two of them.                                                *)
(***************************************************************************)
\* the namespace: every quality, the else branch of the torrent loop
PoolArgs ==
    [quality |-> "all", categorize |-> "rating", year_limit |-> 0, csv_only |-> FALSE,
     auto_continue |-> TRUE, imdb_id |-> FALSE, page |-> 1, output |-> "out"]

\* the movies of the page: a release the API lists twice, or two releases
PoolPages == {<<1, 1>>, <<1, 2>>, <<2, 2>>}

\* the task executor.map makes of a movie
PoolTask(i) == [movie |-> i, pc |-> "queued", k |-> 1, create |-> FALSE, ret |-> ""]

\* path of the persist call a worker is at
PoolPath(t) ==
    LET movie == Catalog[t.movie]
    IN  BuildPath(PoolArgs, Sanitize(movie.title_long), 0, movie.torrents[t.k].quality, "",
                  movie.imdb_code, ToString(movie.year))

\* the scraper at the page loop, with an empty output directory and cache
MpInit ==
    mp \in {[main |-> "page", tasks |-> [w \in DOMAIN movies |-> PoolTask(movies[w])],
             files |-> EmptyDict, ids |-> {}, cache |-> EmptyDict, counter |-> 0,
             csv |-> {}, cacheFile |-> NoFile,
             writes |-> <<>>, recorded |-> {}] : movies \in PoolPages}

\* a worker moves: its task and the rest of the record
MpMove(w, t, rest) == mp' = [rest EXCEPT !.tasks[w] = t]

\* executor.map(self.__filter_torrents, movies): the tasks are submitted and
\* the main thread goes on; the iterator of results is never read
MpSubmit ==
    /\ mp.main = "page"
    /\ mp' = [mp EXCEPT !.main = "submitted",
                        !.tasks = [w \in DOMAIN @ |-> [@[w] EXCEPT !.pc = "filter"]]]
    /\ UNCHANGED scrVars
    /\ UNCHANGED <<pg, cl, up, rec, rq, bp, eh, um>>

\* the page loop ends, pbar.close(), 'Download finished.': no wait for the
\* executor
MpFinish ==
    /\ mp.main = "submitted"
    /\ mp' = [mp EXCEPT !.main = "finished"]
    /\ UNCHANGED scrVars
    /\ UNCHANGED <<pg, cl, up, rec, rq, bp, eh, um>>

\* self._save_cache(), the last statement of download()
MpSaveCache ==
    /\ mp.main = "finished"
    /\ mp' = [mp EXCEPT !.main = "saved", !.cacheFile = SaveCache(@, mp.cache, "ok")]
    /\ UNCHANGED scrVars
    /\ UNCHANGED <<pg, cl, up, rec, rq, bp, eh, um>>

\* __filter_torrents up to the torrent loop: movie_id in downloaded_movie_ids
MpFilter ==
    /\ \E w \in DOMAIN mp.tasks :
        LET t == mp.tasks[w]
        IN  /\ t.pc = "filter"
            /\ MpMove(w, [t EXCEPT !.pc = IF AlreadyDownloaded(mp.ids, ToString(t.movie))
                                          THEN "done" ELSE "torrent"], mp)
    /\ UNCHANGED scrVars
    /\ UNCHANGED <<pg, cl, up, rec, rq, bp, eh, um>>

\* one turn of the torrent loop: _is_movie_cached, then __log_csv
MpTorrent ==
    /\ \E w \in DOMAIN mp.tasks :
        LET t == mp.tasks[w]
            movie == Catalog[t.movie]
        IN  /\ t.pc = "torrent"
            /\ IF t.k > Len(movie.torrents)
               THEN MpMove(w, [t EXCEPT !.pc = "done"], mp)
               ELSE IF IsMovieCached(mp.cache, ToString(t.movie), movie.torrents[t.k].quality)
               THEN MpMove(w, [t EXCEPT !.k = @ + 1], mp)
               ELSE MpMove(w, [t EXCEPT !.pc = "isfile"],
                           [mp EXCEPT !.csv = @ \cup {<<ToString(t.movie),
                                                        movie.torrents[t.k].quality>>}])
    /\ UNCHANGED scrVars
    /\ UNCHANGED <<pg, cl, up, rec, rq, bp, eh, um>>

\* __save_magnet_info: os.path.isfile(magnet_file_path); the counter stays
\* below the limit of the escape hatch with the torrents of one page
MpIsFile ==
    /\ \E w \in DOMAIN mp.tasks :
        LET t == mp.tasks[w]
        IN  /\ t.pc = "isfile"
            /\ ~HatchOpen(mp.counter, FALSE)
            /\ MpMove(w, [t EXCEPT !.pc = IF MagnetFileExists(mp.files, PoolPath(t))
                                          THEN "count" ELSE "write"], mp)
    /\ UNCHANGED scrVars
    /\ UNCHANGED <<pg, cl, up, rec, rq, bp, eh, um>>

\* the file is there: self.existing_file_counter += 1
MpCount ==
    /\ \E w \in DOMAIN mp.tasks :
        LET t == mp.tasks[w]
        IN  /\ t.pc = "count"
            /\ MpMove(w, [t EXCEPT !.pc = "rec_check", !.ret = "False"],
                      [mp EXCEPT !.counter = @ + 1])
    /\ UNCHANGED scrVars
    /\ UNCHANGED <<pg, cl, up, rec, rq, bp, eh, um>>

\* open(magnet_file_path, 'w') and json.dump
MpWrite ==
    /\ \E w \in DOMAIN mp.tasks :
        LET t == mp.tasks[w]
            movie == Catalog[t.movie]
            tor == movie.torrents[t.k]
            path == PoolPath(t)
        IN  /\ t.pc = "write"
            /\ MpMove(w, [t EXCEPT !.pc = "append"],
                      [mp EXCEPT
                         !.files = DictSet(@, MagnetFilePath(path),
                                           MagnetInfo(tor.hash, Sanitize(movie.title_long),
                                                      ToString(t.movie), tor.quality,
                                                      movie.imdb_code, movie.year, FirstDay)),
                         !.writes = Append(@, [path |-> path, worker |-> w])])
    /\ UNCHANGED scrVars
    /\ UNCHANGED <<pg, cl, up, rec, rq, bp, eh, um>>

\* self.downloaded_movie_ids.append(movie_id)
MpAppendId ==
    /\ \E w \in DOMAIN mp.tasks :
        LET t == mp.tasks[w]
        IN  /\ t.pc = "append"
            /\ MpMove(w, [t EXCEPT !.pc = "rec_check", !.ret = "True"],
                      [mp EXCEPT !.ids = @ \cup {ToString(t.movie)}])
    /\ UNCHANGED scrVars
    /\ UNCHANGED <<pg, cl, up, rec, rq, bp, eh, um>>

\* _cache_movie: the test 'movie_id not in self.processed_movies_cache'
MpRecCheck ==
    /\ \E w \in DOMAIN mp.tasks :
        LET t == mp.tasks[w]
        IN  /\ t.pc = "rec_check"
            /\ MpMove(w, [t EXCEPT !.pc = "rec_create",
                                   !.create = ToString(t.movie) \notin DOMAIN mp.cache], mp)
    /\ UNCHANGED scrVars
    /\ UNCHANGED <<pg, cl, up, rec, rq, bp, eh, um>>

\* _cache_movie: the entry is set to a new one if the test found none
MpRecCreate ==
    /\ \E w \in DOMAIN mp.tasks :
        LET t == mp.tasks[w]
            movie == Catalog[t.movie]
        IN  /\ t.pc = "rec_create"
            /\ MpMove(w, [t EXCEPT !.pc = "rec_touch"],
                      IF t.create
                      THEN [mp EXCEPT !.cache =
                               DictSet(@, ToString(t.movie),
                                       [name |-> Sanitize(movie.title_long),
                                        year |-> movie.year, qualities |-> <<>>,
                                        first_seen |-> IsoFormat(FirstDay),
                                        last_seen |-> IsoFormat(FirstDay)])]
                      ELSE mp)
    /\ UNCHANGED scrVars
    /\ UNCHANGED <<pg, cl, up, rec, rq, bp, eh, um>>

\* _cache_movie: last_seen is set, and the quality appended if it is not in
\* the entry; then the end of __save_magnet_info (the counter is set to 0
\* after a write) and of the turn of the torrent loop
MpRecTouch ==
    /\ \E w \in DOMAIN mp.tasks :
        LET t == mp.tasks[w]
            movie == Catalog[t.movie]
            quality == movie.torrents[t.k].quality
        IN  /\ t.pc = "rec_touch"
            /\ MpMove(w, [t EXCEPT !.pc = "torrent", !.k = @ + 1, !.ret = ""],
                      [mp EXCEPT
                         !.cache = CacheMovie(@, ToString(t.movie),
                                              Sanitize(movie.title_long), movie.year,
                                              quality, FirstDay),
                         !.counter = IF t.ret = "True" THEN 0 ELSE @,
                         !.recorded = @ \cup {<<ToString(t.movie), quality>>}])
    /\ UNCHANGED scrVars
    /\ UNCHANGED <<pg, cl, up, rec, rq, bp, eh, um>>

InitPool ==
    /\ ScrIdle /\ pg = Idle /\ cl = Idle /\ up = Idle
    /\ rec = Idle /\ rq = Idle /\ bp = Idle /\ eh = Idle /\ um = Idle /\ MpInit

NextPool ==
    \/ MpSubmit
    \/ MpFinish
    \/ MpSaveCache
    \/ MpFilter
    \/ MpTorrent
    \/ MpIsFile
    \/ MpCount
    \/ MpWrite
    \/ MpAppendId
    \/ MpRecCheck
    \/ MpRecCreate
    \/ MpRecTouch

SpecPool == InitPool /\ [][NextPool]_vars

\* C36: the cache file is written only when every task given to the pool
\* has ended, and then it holds every (id, quality) pair a worker recorded.
C36_SavedAfterWorkers ==
    mp.main = "saved" =>
        /\ \A w \in DOMAIN mp.tasks : mp.tasks[w].pc = "done"
        /\ \A pr \in mp.recorded : IsMovieCached(mp.cacheFile.data, pr[1], pr[2])

\* C37: no descriptor path is written by two workers, and when the workers
\* have ended every pair one of them recorded is in the cache map.
C37_NoLockNeeded ==
    /\ \A i, j \in DOMAIN mp.writes :
          (mp.writes[i].path = mp.writes[j].path) => mp.writes[i].worker = mp.writes[j].worker
    /\ (\A w \in DOMAIN mp.tasks : mp.tasks[w].pc = "done") =>
          \A pr \in mp.recorded : IsMovieCached(mp.cache, pr[1], pr[2])

====
